---- MODULE Spec2Model ----
(***************************************************************************)
(* Verification model of the clippy-uppy pipeline.                         *)
(*                                                                         *)
(* The orchestrator (cloud-run/start_pipeline/main.py) normalises a        *)
(* request, calls the stages transcode, transcribe, sample, enrich and     *)
(* store one after the other and deep-merges their answers into one        *)
(* record.  The stages are modelled by what their handlers validate and    *)
(* return.                                                                 *)
(*                                                                         *)
(* JSON values are tagged records:                                         *)
(*   [t |-> "s", v |-> <<tokens>>]   a str (see "Strings")                 *)
(*   [t |-> "i", v |-> i]            a number                              *)
(*   [t |-> "n"]                     None                                  *)
(*   [t |-> "l", v |-> <<values>>]   a list                                *)
(*   [t |-> "d", m |-> function]     a dict, key |-> value                 *)
(***************************************************************************)
EXTENDS Integers, Sequences, FiniteSets, TLC

VARIABLES
    pc,            \* position of run_all: idle, transcode, ..., done
    data,          \* the request body of /run_all
    payload,       \* run_all's local `payload`
    merged,        \* run_all's local `merged` (the Accumulated Record)
    alias,         \* TRUE while `merged` is the same object as `payload`
    asset_type,    \* run_all's local `asset_type`
    audio_status,  \* run_all's local `audio_status`
    urls,          \* the stages whose service URL is configured
    calls,         \* the call_service invocations so far, in order
    sent,          \* the requests.post issued so far: [stage, body]
    answers,       \* the 200 answers received so far: [stage, body]
    failed,        \* the stage whose call raised, or "none"
    response,      \* the HTTP answer of /run_all, once done
    prev,          \* `merged` before the latest accumulation
    gcs_metadata,  \* the JSON object metadata/<asset_id>.json in GCS
    firestore_assets,  \* the Firestore document assets/<asset_id>
    mA, mB,        \* the records a merge is applied to
    mOut,          \* deep_merge(mA, mB), once computed
    mAgain,        \* deep_merge(mA, mOut), once computed
    mPc,           \* position of the merge run: off, start, merged, again
    nReq,          \* the request build_initial_payload is applied to
    nOut,          \* what build_initial_payload returned or raised
    nPc,           \* position of the normaliser run: off, start, built
    clock,         \* time.time() of the catalog ingestor, in seconds
    getty_token,   \* the ingestor's global _getty_token
    getty_token_expiry,  \* the ingestor's global _getty_token_expiry
    tokenLog,      \* the calls of get_getty_access_token so far
    vPc,           \* position of /validate of the catalog enricher
    vCount,        \* validate's local `count`
    vSuccesses,    \* validate's local `successes`, as asset ids
    vPage,         \* search_downloadable_asset_ids' local `page`
    vIds,          \* search_downloadable_asset_ids' local `ids`
    vSeen,         \* the enricher's global _seen_ids
    vDocs,         \* the asset ids with a Firestore record
    vCandidates,   \* validate's local `candidate_ids`
    vTask,         \* the index of the process_one coroutine that runs
    vTaskPc,       \* its position: check, token, meta, download, write
    vAttempt,      \* the attempts made by the retry loop it is in
    vAsset,        \* process_one's local `asset`
    vResults,      \* the outcomes of the coroutines gathered so far
    vEvents,       \* the requests sent to the OAuth2 endpoint so far
    vResponse,     \* the HTTP answer of /validate, once done
    vSteps,        \* what /validate did so far, a set of <<asset id, step>>
    vBody,         \* the JSON body of the /validate request
    pPc,           \* position of /process of the catalog ingestor
    pQuery,        \* process's local `query`
    pAssetId,      \* process's local `asset_id`
    pMediaType,    \* process's local `media_type`
    pSearchKind,   \* process's local `search_kind`
    pAsset,        \* process's local `asset`
    pDownloadUrl,  \* process's local `download_url`
    pMediaBytes,   \* process's local `media_bytes`
    pPayload,      \* the pipeline_payload posted to /run_all
    pEvents,       \* the outbound requests of /process so far
    pResponse,     \* the HTTP answer of /process, once done
    iPc,           \* position of the running call of the invoker
    iFn,           \* the function called: call_service or call_start_pipeline
    iUrl,          \* the service URL of the call (None: not configured)
    iEndpoint,     \* the endpoint of the call
    iToken,        \* the identity token fetched by the call
    iRequests,     \* the requests the call has sent
    iOutcome,      \* what the call returned or raised
    iHistory,      \* the calls that are over, oldest first
    rPc,           \* position of the retry loop that runs
    rFn,           \* fetch_asset_metadata or download_to_gcs_with_retries
    rLimit,        \* the attempts the loop may make
    rAttempt,      \* the loop's `attempt`
    rRequests,     \* the answers to the requests the call has sent
    rBlob,         \* TRUE once raw/<asset_id>.mp4 is uploaded to GCS
    rLastErr,      \* download_to_gcs_with_retries' local `last_err`
    rOutcome,      \* what the call returned or raised
    bPc,           \* position of the batch runner's main
    bVariant,      \* which batch runner runs: requests or curl
    bBucket,       \* the blob names under FOLDER in the bucket
    bFile,         \* /data/processed.txt: whether it exists, and its lines
    bCount,        \* COUNT of the run
    bProcessed,    \* main's local `processed`
    bToProcess,    \* main's local `to_process`
    bIdx,          \* how many files of to_process the loop has handled
    bSubmitted,    \* the files for which the pipeline was called, this run
    bRuns          \* the runs that are over, oldest first

vars == <<pc, data, payload, merged, alias, asset_type, audio_status, urls,
          calls, sent, answers, failed, response, prev, gcs_metadata,
          firestore_assets, mA, mB, mOut,
          mAgain, mPc, nReq, nOut, nPc, clock, getty_token,
          getty_token_expiry, tokenLog, vPc, vCount, vSuccesses, vPage,
          vIds, vSeen, vDocs, vCandidates, vTask, vTaskPc, vAttempt, vAsset,
          vResults, vEvents, vResponse, vSteps, vBody, pPc,
          pQuery, pAssetId, pMediaType,
          pSearchKind, pAsset, pDownloadUrl, pMediaBytes, pPayload, pEvents,
          pResponse, iPc, iFn, iUrl, iEndpoint, iToken, iRequests, iOutcome,
          iHistory,
          rPc, rFn, rLimit, rAttempt, rRequests, rBlob, rLastErr, rOutcome,
          bPc, bVariant, bBucket, bFile, bCount, bProcessed, bToProcess, bIdx,
          bSubmitted, bRuns>>

runVars == <<pc, data, payload, merged, alias, asset_type, audio_status, urls,
             calls, sent, answers, failed, response, prev, gcs_metadata,
             firestore_assets>>

mergeVars == <<mA, mB, mOut, mAgain, mPc>>

normVars == <<nReq, nOut, nPc>>

credVars == <<clock, getty_token, getty_token_expiry, tokenLog>>

valVars == <<vPc, vCount, vSuccesses, vPage, vIds, vSeen, vDocs, vCandidates,
             vTask, vTaskPc, vAttempt, vAsset, vResults, vEvents, vResponse,
             vSteps, vBody>>

procVars == <<pPc, pQuery, pAssetId, pMediaType, pSearchKind, pAsset,
              pDownloadUrl, pMediaBytes, pPayload, pEvents, pResponse>>

invVars == <<iPc, iFn, iUrl, iEndpoint, iToken, iRequests, iOutcome, iHistory>>

retryVars == <<rPc, rFn, rLimit, rAttempt, rRequests, rBlob, rLastErr,
               rOutcome>>

batchVars == <<bPc, bVariant, bBucket, bFile, bCount, bProcessed, bToProcess,
               bIdx, bSubmitted, bRuns>>

\* what a step of each part of the model leaves alone
notRun == <<mergeVars, normVars, credVars, valVars, procVars,
             invVars,
             retryVars, batchVars>>
notMerge == <<runVars, normVars, credVars, valVars, procVars,
             invVars,
             retryVars, batchVars>>
notNorm == <<runVars, mergeVars, credVars, valVars, procVars,
             invVars,
             retryVars, batchVars>>
notCred == <<runVars, mergeVars, normVars, valVars, procVars,
             invVars,
             retryVars, batchVars>>
notVal == <<runVars, mergeVars, normVars, credVars, procVars,
             invVars,
             retryVars, batchVars>>
\* /process reads and writes the token cache
notProc == <<runVars, mergeVars, normVars, valVars, invVars,
             retryVars, batchVars>>
notInv == <<runVars, mergeVars, normVars, credVars, valVars, procVars,
             retryVars, batchVars>>
notRetry == <<runVars, mergeVars, normVars, credVars, valVars, procVars,
              invVars, batchVars>>
notBatch == <<runVars, mergeVars, normVars, credVars, valVars, procVars,
              invVars, retryVars>>

\* the parts of the model that take no part in a run
MergeOff ==
    mA = [t |-> "n"] /\ mB = [t |-> "n"] /\ mOut = [t |-> "n"]
    /\ mAgain = [t |-> "n"] /\ mPc = "off"
NormOff ==
    nReq = [t |-> "n"] /\ nOut = [t |-> "n"] /\ nPc = "off"
ProcOff ==
    /\ pPc = "off" /\ pQuery = [t |-> "n"] /\ pAssetId = [t |-> "n"]
    /\ pMediaType = [t |-> "n"] /\ pSearchKind = [t |-> "n"]
    /\ pAsset = [t |-> "n"] /\ pDownloadUrl = [t |-> "n"]
    /\ pMediaBytes = [t |-> "n"] /\ pPayload = [t |-> "n"]
    /\ pEvents = <<>> /\ pResponse = [t |-> "n"]
InvOff ==
    /\ iPc = "off" /\ iFn = "none" /\ iUrl = [t |-> "n"] /\ iEndpoint = "none"
    /\ iToken = [t |-> "n"] /\ iRequests = <<>> /\ iOutcome = [t |-> "n"]
    /\ iHistory = <<>>
ValOff ==
    /\ vPc = "off" /\ vCount = 0 /\ vSuccesses = <<>> /\ vPage = 0
    /\ vIds = <<>> /\ vSeen = {} /\ vDocs = {} /\ vCandidates = <<>>
    /\ vTask = 0 /\ vTaskPc = "none" /\ vAttempt = 0
    /\ vAsset = [t |-> "n"] /\ vResults = <<>> /\ vEvents = <<>>
    /\ vResponse = [t |-> "n"] /\ vSteps = {} /\ vBody = [t |-> "n"]
RetryOff ==
    /\ rPc = "off" /\ rFn = "none" /\ rLimit = 0 /\ rAttempt = 0
    /\ rRequests = <<>> /\ rBlob = FALSE /\ rLastErr = [t |-> "n"]
    /\ rOutcome = [t |-> "n"]
BatchOff ==
    /\ bPc = "off" /\ bVariant = "none" /\ bBucket = {}
    /\ bFile = [exists |-> FALSE, lines |-> {}] /\ bCount = 0
    /\ bProcessed = {}
    /\ bToProcess = <<>> /\ bIdx = 0 /\ bSubmitted = <<>> /\ bRuns = <<>>
\* lines 30-31 of the ingestor: no token yet
CredOff ==
    clock = 0 /\ getty_token = [t |-> "n"] /\ getty_token_expiry = 0
    /\ tokenLog = <<>>

----------------------------------------------------------------------------
(* JSON values *)

S(q) == [t |-> "s", v |-> q]
\* a str of one token
W(x) == [t |-> "s", v |-> <<x>>]
None == [t |-> "n"]
L(q) == [t |-> "l", v |-> q]
\* a number
Num(i) == [t |-> "i", v |-> i]
\* a JSON number with a fraction, v + tenths/10 with v >= 0
Flt(i, tenths) == [t |-> "f", v |-> i, tenths |-> tenths]
D(f) == [t |-> "d", m |-> f]
EmptyMap == [k \in {} |-> None]
IsDict(x) == x.t = "d"
IsStr(x) == x.t = "s"
\* `key in d` for a dict d
Has(d, k) == k \in DOMAIN d.m
\* d.get(k, dflt)
Get(d, k, dflt) == IF Has(d, k) THEN d.m[k] ELSE dflt
\* Python truthiness of a JSON value
Truthy(x) ==
    CASE x.t = "n" -> FALSE
      [] x.t = "s" -> x.v # <<>>
      [] x.t = "l" -> x.v # <<>>
      [] x.t = "d" -> DOMAIN x.m # {}
\* d with d[k] = x assigned
Put(d, k, x) == D([j \in DOMAIN d.m \cup {k} |-> IF j = k THEN x ELSE d.m[j]])

----------------------------------------------------------------------------
(* Strings.  A str is a sequence of tokens; "/" and "." are tokens of      *)
(* their own and no other token holds one of them, except the scheme       *)
(* tokens "gs://" and "http://", which only ever start a str.  Searching   *)
(* for "/" or "." in a str is then searching its tokens.                   *)

\* str.lower(), token by token
LowerTok(x) ==
    CASE x = "MP4" -> "mp4"
      [] x = "JPG" -> "jpg"
      [] x = "Clip1" -> "clip1"
      [] x = "MOV" -> "mov"
      [] x = "Png" -> "png"
      [] x = "WAV" -> "wav"
      [] OTHER -> x
lower(q) == [i \in 1..Len(q) |-> LowerTok(q[i])]

\* q.rfind(x) as a 1-based index, 0 when absent
RFind(q, x) ==
    LET hits == {i \in 1..Len(q) : q[i] = x}
    IN IF hits = {} THEN 0 ELSE CHOOSE i \in hits : \A j \in hits : j <= i
\* q.find(x) as a 1-based index, 0 when absent
Find(q, x) ==
    LET hits == {i \in 1..Len(q) : q[i] = x}
    IN IF hits = {} THEN 0 ELSE CHOOSE i \in hits : \A j \in hits : i <= j

\* os.path.basename
basename(q) == SubSeq(q, RFind(q, "/") + 1, Len(q))

\* os.path.splitext: <<root, ext>>; leading dots of the last component are
\* not an extension
splitext(q) ==
    LET sepIndex == RFind(q, "/")
        dotIndex == RFind(q, ".")
    IN IF dotIndex > sepIndex
          /\ \E i \in (sepIndex + 1)..(dotIndex - 1) : q[i] # "."
       THEN <<SubSeq(q, 1, dotIndex - 1), SubSeq(q, dotIndex, Len(q))>>
       ELSE <<q, <<>> >>

detect_asset_type_from_filename(file_name) ==
    LET ext == splitext(lower(file_name))[2]
    IN IF ext \in {<<".", "mp4">>, <<".", "mov">>, <<".", "mkv">>, <<".", "avi">>}
       THEN W("video")
       ELSE IF ext \in {<<".", "jpg">>, <<".", "jpeg">>, <<".", "png">>,
                        <<".", "webp">>, <<".", "tiff">>}
       THEN W("image")
       ELSE IF ext \in {<<".", "mp3">>, <<".", "wav">>, <<".", "aac">>}
       THEN W("audio")
       ELSE W("unknown")

\* parse_gs_url: [ok, bucket, object_name]; not ok is HTTP 400
parse_gs_url(gs_url) ==
    LET bad == [ok |-> FALSE, bucket |-> <<>>, object_name |-> <<>>]
    IN IF gs_url = <<>> \/ Head(gs_url) # "gs://"
       THEN bad
       ELSE LET without_scheme == Tail(gs_url)
                cut == Find(without_scheme, "/")
            IN IF cut = 0
               THEN bad
               ELSE LET bucket == SubSeq(without_scheme, 1, cut - 1)
                        object_name == SubSeq(without_scheme, cut + 1,
                                              Len(without_scheme))
                    IN IF bucket = <<>> \/ object_name = <<>>
                       THEN bad
                       ELSE [ok |-> TRUE, bucket |-> bucket,
                             object_name |-> object_name]

----------------------------------------------------------------------------
(* State Accumulator *)

\* a merge that concatenates lists
RECURSIVE deep_merge_concat(_, _)
deep_merge_concat(a, b) ==
    D([key \in DOMAIN a.m \cup DOMAIN b.m |->
        IF key \in DOMAIN b.m
        THEN IF key \in DOMAIN a.m /\ IsDict(a.m[key]) /\ IsDict(b.m[key])
             THEN deep_merge_concat(a.m[key], b.m[key])
             ELSE IF key \in DOMAIN a.m /\ a.m[key].t = "l"
                     /\ b.m[key].t = "l"
             THEN L(a.m[key].v \o b.m[key].v)
             ELSE b.m[key]
        ELSE a.m[key]])

\* a merge that overwrites top-level keys only, as dict.update does
deep_merge_shallow(a, b) ==
    D([key \in DOMAIN a.m \cup DOMAIN b.m |->
        IF key \in DOMAIN b.m THEN b.m[key] ELSE a.m[key]])

\* a merge in which the existing value wins every conflict between leaves
RECURSIVE deep_merge_keep_existing(_, _)
deep_merge_keep_existing(a, b) ==
    D([key \in DOMAIN a.m \cup DOMAIN b.m |->
        IF key \in DOMAIN a.m
        THEN IF key \in DOMAIN b.m /\ IsDict(a.m[key]) /\ IsDict(b.m[key])
             THEN deep_merge_keep_existing(a.m[key], b.m[key])
             ELSE a.m[key]
        ELSE b.m[key]])

RECURSIVE deep_merge(_, _)
deep_merge(a, b) ==
    D([key \in DOMAIN a.m \cup DOMAIN b.m |->
        IF key \in DOMAIN b.m
        THEN IF key \in DOMAIN a.m /\ IsDict(a.m[key]) /\ IsDict(b.m[key])
             THEN deep_merge(a.m[key], b.m[key])
             ELSE b.m[key]
        ELSE a.m[key]])

----------------------------------------------------------------------------
(* Input Normaliser.  A call returns [kind |-> "ok", body], or raises an   *)
(* HTTPException, [kind |-> "http", status, detail], or raises any other   *)
(* exception, [kind |-> "exc"] (an unhandled KeyError).                    *)

Ok(p) == [kind |-> "ok", body |-> p, status |-> 200, detail |-> None]
Http(code, detail) ==
    [kind |-> "http", body |-> None, status |-> code, detail |-> detail]
Exc == [kind |-> "exc", body |-> None, status |-> 500, detail |-> None]

\* shape 1: media_url
build_from_media_url(req) ==
    LET media_url == req.m["media_url"]
        media_type == Get(req, "media_type", W("unknown"))
        getty_metadata == Get(req, "getty_metadata", D(EmptyMap))
        source == Get(req, "source", W("getty"))
        asset_id == Get(req, "asset_id", W("getty_asset"))
        parsed == parse_gs_url(media_url.v)
        file_name == parsed.object_name
        a_type == IF media_type \in {W("image"), W("video"), W("audio")}
                      THEN media_type
                      ELSE detect_asset_type_from_filename(file_name)
        base == D(("asset_id" :> asset_id) @@ ("source" :> source)
                  @@ ("media_type" :> media_type)
                  @@ ("asset_type" :> a_type)
                  @@ ("bucket" :> S(parsed.bucket))
                  @@ ("file_name" :> S(file_name))
                  @@ ("paths" :> D("raw" :> media_url)))
    IN IF ~parsed.ok
       THEN Http(400, W("Invalid GCS URL"))
       ELSE IF Truthy(getty_metadata)
       THEN Ok(Put(base, "getty_metadata", getty_metadata))
       ELSE Ok(base)

\* shape 2: media_bytes of a getty asset
build_from_getty_bytes(req) ==
    IF ~Has(req, "media_type")
    THEN Exc
    ELSE Ok(D(("asset_id" :> Get(req, "asset_id", W("getty_asset")))
              @@ ("source" :> W("getty"))
              @@ ("media_type" :> req.m["media_type"])
              @@ ("media_bytes" :> req.m["media_bytes"])
              @@ ("getty_metadata" :> Get(req, "getty_metadata", D(EmptyMap)))
              @@ ("asset_type" :> req.m["media_type"])))

\* shape 3: direct upload
build_from_upload(req) ==
    Ok(D(("asset_id" :> Get(req, "asset_id", W("direct_upload")))
         @@ ("source" :> Get(req, "source", W("upload")))
         @@ ("media_type" :> req.m["media_type"])
         @@ ("media_bytes" :> req.m["media_bytes"])
         @@ ("asset_type" :> req.m["media_type"])))

\* shape 4: file_name + bucket
build_from_gcs(req) ==
    LET file_name == req.m["file_name"]
        bucket == req.m["bucket"]
    IN Ok(D(("asset_id" :> S(splitext(basename(file_name.v))[1]))
            @@ ("file_name" :> file_name)
            @@ ("bucket" :> bucket)
            @@ ("source" :> Get(req, "source", W("local")))
            @@ ("asset_type" :> detect_asset_type_from_filename(file_name.v))
            @@ ("paths" :> D("raw" :> S(<<"gs://">> \o bucket.v \o <<"/">>
                                         \o file_name.v)))))

\* shape 5: url
build_from_url(req) ==
    Ok(D(("asset_id" :> Get(req, "asset_id", W("url_asset")))
         @@ ("source" :> Get(req, "source", W("url")))
         @@ ("url" :> req.m["url"])
         @@ ("asset_type" :> W("unknown"))))

\* a normaliser that falls back to a descriptor of unknown type instead of
\* raising
build_initial_payload_lenient(req) ==
    IF Has(req, "media_url")
    THEN build_from_media_url(req)
    ELSE IF Has(req, "media_bytes") /\ Get(req, "source", None) = W("getty")
    THEN build_from_getty_bytes(req)
    ELSE IF Has(req, "media_bytes") /\ Has(req, "media_type")
    THEN build_from_upload(req)
    ELSE IF Has(req, "file_name") /\ Has(req, "bucket")
    THEN build_from_gcs(req)
    ELSE IF Has(req, "url")
    THEN build_from_url(req)
    ELSE Ok(D(("asset_id" :> Get(req, "asset_id", W("asset")))
              @@ ("source" :> Get(req, "source", W("unknown")))
              @@ ("asset_type" :> W("unknown"))))

build_initial_payload(req) ==
    IF Has(req, "media_url")
    THEN build_from_media_url(req)
    ELSE IF Has(req, "media_bytes") /\ Get(req, "source", None) = W("getty")
    THEN build_from_getty_bytes(req)
    ELSE IF Has(req, "media_bytes") /\ Has(req, "media_type")
    THEN build_from_upload(req)
    ELSE IF Has(req, "file_name") /\ Has(req, "bucket")
    THEN build_from_gcs(req)
    ELSE IF Has(req, "url")
    THEN build_from_url(req)
    ELSE Http(400, W("Invalid input"))

----------------------------------------------------------------------------
(* The stages.  A stage handler maps the request body and the outcome of   *)
(* its environment (storage, ffmpeg, models) to [status, body]; a status   *)
(* other than 200 carries no record.                                       *)

Resp(p) == [status |-> 200, body |-> p]
\* an error answer; its text is the stage's own
Err(code) == [status |-> code, body |-> W("resp.text")]
\* datetime.utcnow().isoformat() + "Z"
Now == W("now")
\* the bucket the stages are deployed with
StageBucket == <<"gs://", "assets">>
GcsPath(blob) == S(StageBucket \o <<"/">> \o blob)

\* what the environment of /transcode can do: fail, or
\* [probe_ok, video_ok, has_audio, audio_ok]
TranscodeEnvs ==
    {[fail |-> TRUE, probe_ok |-> TRUE, video_ok |-> TRUE, has_audio |-> TRUE,
      audio_ok |-> TRUE],
     [fail |-> FALSE, probe_ok |-> FALSE, video_ok |-> TRUE, has_audio |-> TRUE,
      audio_ok |-> TRUE]}
    \cup {[fail |-> FALSE, probe_ok |-> TRUE, video_ok |-> v, has_audio |-> h,
           audio_ok |-> a] : v \in BOOLEAN, h \in BOOLEAN, a \in BOOLEAN}

\* a transcode that keeps the initial "not_attempted" when the input has no
\* audio stream, and names the audio object whenever there is one
transcode_body_not_attempted(asset_id, raw_path, env) ==
    LET audio_state == IF ~env.probe_ok THEN W("skipped_invalid_input")
                       ELSE IF ~env.has_audio THEN W("not_attempted")
                       ELSE IF env.audio_ok THEN W("extracted")
                       ELSE W("audio_extraction_failed")
        video_status == IF ~env.probe_ok THEN W("skipped_invalid_input")
                        ELSE IF env.video_ok THEN W("transcoded")
                        ELSE W("transcode_failed")
    IN D(("asset_id" :> asset_id)
         @@ ("paths" :>
               D(("raw" :> raw_path)
                 @@ ("transcoded" :>
                       D(("video" :>
                            IF video_status = W("transcoded")
                            THEN GcsPath(<<"transcoded", "/">> \o asset_id.v
                                         \o <<"_normalized", ".", "mp4">>)
                            ELSE None)
                         @@ ("audio" :>
                               IF env.probe_ok /\ env.has_audio
                               THEN GcsPath(<<"transcoded", "/">>
                                            \o asset_id.v
                                            \o <<"_audio", ".", "mp3">>)
                               ELSE None)))))
         @@ ("technical" :> D(("video" :> None) @@ ("audio" :> None)))
         @@ ("status" :> D(("video" :> video_status)
                           @@ ("audio" :> audio_state)))
         @@ ("timestamp" :> Now))

\* transcode, the part after the input was located
transcode_body(asset_id, raw_path, env) ==
    IF ~env.probe_ok
    THEN D(("asset_id" :> asset_id)
           @@ ("paths" :> D(("raw" :> raw_path)
                            @@ ("transcoded" :> D(("video" :> None)
                                                  @@ ("audio" :> None)))))
           @@ ("technical" :> D(("video" :> None) @@ ("audio" :> None)))
           @@ ("status" :> D(("video" :> W("skipped_invalid_input"))
                             @@ ("audio" :> W("skipped_invalid_input"))))
           @@ ("reason" :> W("ffprobe could not read input"))
           @@ ("timestamp" :> Now))
    ELSE
    LET video_status == IF env.video_ok THEN W("transcoded")
                        ELSE W("transcode_failed")
        audio_state == IF env.has_audio
                       THEN IF env.audio_ok THEN W("extracted")
                            ELSE W("audio_extraction_failed")
                       ELSE W("no_audio_present")
        audio_gcs_path ==
            IF audio_state = W("extracted")
            THEN GcsPath(<<"transcoded", "/">> \o asset_id.v
                         \o <<"_audio", ".", "mp3">>)
            ELSE None
        audio_technical ==
            IF audio_state = W("extracted")
            THEN D("codec" :> W("mp3")) ELSE None
        video_gcs_path ==
            IF env.video_ok
            THEN GcsPath(<<"transcoded", "/">> \o asset_id.v
                         \o <<"_normalized", ".", "mp4">>)
            ELSE None
        video_technical ==
            IF env.video_ok THEN D("codec" :> W("mpeg4")) ELSE None
        reasons ==
            (IF ~env.video_ok THEN "video_reason" :> W("stderr") ELSE EmptyMap)
            @@ (IF audio_state = W("audio_extraction_failed")
                THEN "audio_reason" :> W("stderr") ELSE EmptyMap)
        answer ==
            D(("asset_id" :> asset_id)
              @@ ("paths" :> D(("raw" :> raw_path)
                               @@ ("transcoded" :>
                                     D(("video" :> video_gcs_path)
                                       @@ ("audio" :> audio_gcs_path)))))
              @@ ("technical" :> D(("video" :> video_technical)
                                   @@ ("audio" :> audio_technical)))
              @@ ("status" :> D(("video" :> video_status)
                                @@ ("audio" :> audio_state)))
              @@ ("timestamp" :> Now))
    IN IF DOMAIN reasons # {} THEN Put(answer, "reason", D(reasons))
       ELSE answer

\* extract_blob_name: TRUE when it raises no HTTP 400
extract_blob_name_ok(full_gs_url) ==
    /\ full_gs_url # <<>>
    /\ Head(full_gs_url) = "gs://"
    /\ Find(Tail(full_gs_url), "/") # 0

\* a transcode that tries the file_name + bucket mode first and so names
\* the asset after the stem of its file
transcode_local_first(req, env) ==
    IF Has(req, "file_name") /\ Has(req, "bucket")
    THEN IF env.fail THEN Err(500)
         ELSE Resp(transcode_body(
                  S(splitext(basename(req.m["file_name"].v))[1]),
                  S(<<"gs://">> \o req.m["bucket"].v \o <<"/">>
                    \o req.m["file_name"].v),
                  env))
    ELSE IF Has(req, "asset_id") /\ Has(req, "paths")
            /\ Has(req.m["paths"], "raw")
    THEN LET raw_path == req.m["paths"].m["raw"]
         IN IF ~extract_blob_name_ok(raw_path.v) THEN Err(400)
            ELSE IF env.fail THEN Err(500)
            ELSE Resp(transcode_body(req.m["asset_id"], raw_path, env))
    ELSE Err(400)

\* POST /transcode
transcode(req, env) ==
    IF Has(req, "asset_id") /\ Has(req, "paths") /\ Has(req.m["paths"], "raw")
    THEN LET raw_path == req.m["paths"].m["raw"]
         IN IF ~extract_blob_name_ok(raw_path.v) THEN Err(400)
            ELSE IF env.fail THEN Err(500)
            ELSE Resp(transcode_body(req.m["asset_id"], raw_path, env))
    ELSE IF Has(req, "file_name") /\ Has(req, "bucket")
    THEN IF env.fail THEN Err(500)
         ELSE Resp(transcode_body(
                  S(splitext(basename(req.m["file_name"].v))[1]),
                  S(<<"gs://">> \o req.m["bucket"].v \o <<"/">>
                    \o req.m["file_name"].v),
                  env))
    ELSE Err(400)

\* what the environment of /transcribe can do
TranscribeEnvs == {"error", "no_audio", "transcribed"}

\* POST /transcribe
transcribe(req, env) ==
    IF ~Has(req, "asset_id") /\ ~Has(req, "file_name")
    THEN Err(400)
    ELSE
    LET asset_id == IF Has(req, "asset_id") THEN req.m["asset_id"]
                    ELSE S(splitext(basename(req.m["file_name"].v))[1])
        paths == IF Truthy(Get(req, "paths", None)) THEN req.m["paths"]
                 ELSE D(EmptyMap)
        transcoded == Get(paths, "transcoded", None)
        upstream == IsDict(transcoded) /\ Has(transcoded, "audio")
        gcs_transcript == GcsPath(<<"transcripts", "/">> \o asset_id.v
                                  \o <<".", "json">>)
    IN IF env = "error" \/ (upstream /\ ~IsStr(transcoded.m["audio"]))
       THEN Err(500)
       ELSE IF env = "no_audio" /\ ~upstream
       THEN Resp(D(("asset_id" :> asset_id)
                   @@ ("paths" :> D(("audio" :> None)
                                    @@ ("transcript" :> gcs_transcript)))
                   @@ ("transcript" :>
                         D(("text" :> S(<<>>)) @@ ("language" :> W("en"))
                           @@ ("segments" :> L(<<>>))
                           @@ ("confidence" :> None)
                           @@ ("note" :> W("No audio detected in source video"))))
                   @@ ("status" :> W("no_audio"))
                   @@ ("timestamp" :> Now)))
       ELSE Resp(D(("asset_id" :> asset_id)
                   @@ ("paths" :>
                         D(("audio" :> GcsPath(<<"audio", "/">> \o asset_id.v
                                               \o <<".", "mp3">>))
                           @@ ("transcript" :> gcs_transcript)))
                   @@ ("transcript" :>
                         D(("text" :> W("words")) @@ ("language" :> W("en"))
                           @@ ("segments" :> L(<<W("words")>>))
                           @@ ("confidence" :> None)))
                   @@ ("status" :> W("transcribed"))
                   @@ ("timestamp" :> Now)))

\* what the environment of /sample can do
SampleEnvs == {"error", "ok"}

\* POST /sample
sample(req, env) ==
    LET mode1 == Has(req, "asset_id") /\ Has(req, "paths")
                 /\ Has(req.m["paths"], "transcoded")
        mode2 == Has(req, "file_name") /\ Has(req, "bucket")
        asset_id == IF mode1 THEN req.m["asset_id"]
                    ELSE S(splitext(basename(req.m["file_name"].v))[1])
        transcoded_path ==
            IF mode1 THEN req.m["paths"].m["transcoded"]
            ELSE S(<<"gs://">> \o req.m["bucket"].v
                   \o <<"/", "transcoded", "/">> \o asset_id.v
                   \o <<"_normalized", ".", "mp4">>)
        keyframe_paths ==
            L(<<GcsPath(<<"frames", "/">> \o asset_id.v \o <<"/">>
                        \o asset_id.v \o <<"_kf_0001", ".", "jpg">>)>>)
    IN IF ~mode1 /\ ~mode2 THEN Err(400)
       ELSE IF env = "error" THEN Err(500)
       ELSE Resp(D(("asset_id" :> asset_id)
                   @@ ("paths" :> D(("transcoded" :> transcoded_path)
                                    @@ ("frames" :> keyframe_paths)))
                   @@ ("frames" :>
                         D(("scene_boundaries" :> L(<<W("0")>>))
                           @@ ("keyframe_paths" :> keyframe_paths)
                           @@ ("objects_detected" :> L(<<>>))
                           @@ ("faces_detected" :> L(<<>>))
                           @@ ("dominant_colors" :> L(<<>>))))
                   @@ ("status" :> W("frames_sampled"))
                   @@ ("timestamp" :> Now)))

\* what the environment of /enrich can do
EnrichEnvs == {"error", "ok"}

\* POST /enrich (gemini_enricher)
enrich(req, env) ==
    IF ~Truthy(Get(req, "asset_id", None))
    THEN Err(400)
    ELSE IF ~Has(req, "media_bytes")
            /\ ~(Has(req, "bucket") /\ Has(req, "file_name"))
    THEN Err(400)
    ELSE IF env = "error" THEN Err(500)
    ELSE Resp(Put(Put(Put(req, "analysis", D("description" :> W("text"))),
                      "status", W("enriched")),
                  "timestamp", Now))

\* validate_schema of store_metadata: TRUE when the record is accepted
validate_schema(asset_json) ==
    Has(asset_json, "asset_id") /\ Has(asset_json, "paths")

\* what the environment of /store can do: the GCS write raises, the
\* Firestore write raises, or both succeed
StoreEnvs == {"error", "firestore_error", "ok"}

\* write_json_to_gcs returns gs://<bucket>/metadata/<asset_id>.json
metadata_uri_of(req) ==
    S(<<"gs://", "metadata", "/", "metadata", "/">>
      \o req.m["asset_id"].v \o <<".", "json">>)

\* lines 147-148: asset_json after status and timestamp are normalised
normalised_record(req) ==
    Put(Put(req, "status", W("complete")), "timestamp", Now)

\* lines 151-156: what /store writes, None where nothing is written.  The
\* GCS object is json.dumps(asset_json) at line 151, before line 153 sets
\* paths.metadata; the Firestore document is asset_json at line 156.
store_writes(req, env) ==
    IF ~validate_schema(req) \/ env = "error"
    THEN [gcs |-> None, firestore |-> None]
    ELSE IF env = "firestore_error" \/ ~IsDict(req.m["paths"])
    THEN [gcs |-> normalised_record(req), firestore |-> None]
    ELSE [gcs |-> normalised_record(req),
          firestore |-> Put(normalised_record(req), "paths",
                            Put(req.m["paths"], "metadata",
                                metadata_uri_of(req)))]

\* POST /store
store(req, env) ==
    IF ~validate_schema(req) THEN Err(400)
    ELSE IF env # "ok" \/ ~IsDict(req.m["paths"]) THEN Err(500)
    ELSE LET metadata_uri == metadata_uri_of(req)
         IN Resp(D(("asset_id" :> req.m["asset_id"])
                   @@ ("paths" :> Put(req.m["paths"], "metadata", metadata_uri))
                   @@ ("firestore" :> D(("collection" :> W("assets"))
                                        @@ ("doc_id" :> req.m["asset_id"])))
                   @@ ("status" :> W("stored"))
                   @@ ("timestamp" :> Now)))

----------------------------------------------------------------------------
(* The requests /run_all is driven with: every dict of at most MaxReqKeys  *)
(* of the keys build_initial_payload reads, each with a value of its kind. *)

MaxReqKeys == 3

ReqValues ==
    [media_url |-> {S(<<"gs://", "assets", "/", "getty", "/", "x", ".", "mp4">>),
                    S(<<"gs://", "assets", "/", "y">>),
                    S(<<"http://", "e", "/", "x", ".", "mp4">>)},
     media_type |-> {W("video"), W("audio"), W("image")},
     media_bytes |-> {W("AAAA")},
     source |-> {W("getty"), W("upload")},
     asset_id |-> {W("X123")},
     file_name |-> {S(<<"raw", "/", "clip1", ".", "mp4">>),
                    S(<<"song", ".", "mp3">>),
                    S(<<"notes">>)},
     bucket |-> {W("assets")},
     url |-> {S(<<"http://", "e", "/", "x", ".", "mp4">>)},
     getty_metadata |-> {D("title" :> W("t"))}]

ReqKeys == DOMAIN ReqValues

RECURSIVE DictsOver(_)
DictsOver(ks) ==
    IF ks = {} THEN {EmptyMap}
    ELSE LET k == CHOOSE x \in ks : TRUE
         IN {(k :> v) @@ f : v \in ReqValues[k], f \in DictsOver(ks \ {k})}

Requests ==
    UNION {{D(f) : f \in DictsOver(ks)} :
           ks \in {x \in SUBSET ReqKeys : Cardinality(x) <= MaxReqKeys}}

----------------------------------------------------------------------------
(* Authenticated Invoker *)

Stages == {"transcode", "transcribe", "sample", "enrich", "store"}

\* the environments a stage can meet
StageEnvs(endpoint) ==
    CASE endpoint = "transcode" -> TranscodeEnvs
      [] endpoint = "transcribe" -> TranscribeEnvs
      [] endpoint = "sample" -> SampleEnvs
      [] endpoint = "enrich" -> EnrichEnvs
      [] endpoint = "store" -> StoreEnvs

\* requests.post(f"{url}/{endpoint}", json=body): the answer of the stage
post(endpoint, body, env) ==
    CASE endpoint = "transcode" -> transcode(body, env)
      [] endpoint = "transcribe" -> transcribe(body, env)
      [] endpoint = "sample" -> sample(body, env)
      [] endpoint = "enrich" -> enrich(body, env)
      [] endpoint = "store" -> store(body, env)

\* call_service(url, endpoint, payload): url is TRUE when the service URL is
\* set; token_ok is FALSE when fetch_id_token raises; env is what the stage
\* meets.  Returns resp.json() or raises.
call_service(url, endpoint, body, token_ok, env) ==
    IF ~url
    THEN Http(500, S(<<"Missing service URL for ", endpoint>>))
    ELSE IF ~token_ok THEN Exc
    ELSE LET resp == post(endpoint, body, env)
         IN IF resp.status # 200 THEN Http(resp.status, resp.body)
            ELSE Ok(resp.body)

\* TRUE when call_service got as far as requests.post
Posted(url, token_ok) == url /\ token_ok

\* the HTTP answer FastAPI gives when run_all raises r
ErrorResponse(r) ==
    IF r.kind = "exc"
    THEN [status |-> 500, body |-> W("Internal Server Error")]
    ELSE [status |-> r.status, body |-> D("detail" :> r.detail)]

----------------------------------------------------------------------------
(* Stage Graph Executor: POST /run_all *)

\* the service URLs the process may be deployed with: all of them, or all
\* but one
UrlConfigs == {Stages} \cup {Stages \ {x} : x \in Stages}

\* a gate that forgets the inline payload
GateTranscode_any_video(a_type, p) == a_type = W("video")

\* line 244: the gate of transcode
GateTranscode(a_type, p) == a_type = W("video") /\ ~Has(p, "media_bytes")

\* a gate that transcribes every video
should_transcribe_every_video(a_type, a_status) ==
    a_type = W("audio") \/ a_type = W("video")

\* a gate that skips only after a failed extraction
should_transcribe_unless_failed(a_type, a_status) ==
    IF a_type = W("audio") THEN TRUE
    ELSE IF a_type = W("video")
    THEN a_status \notin {None, W("audio_extraction_failed"),
                          W("skipped_invalid_input")}
    ELSE FALSE

\* lines 257-264: should_transcribe
should_transcribe(a_type, a_status) ==
    IF a_type = W("audio") THEN TRUE
    ELSE IF a_type = W("video") THEN a_status = W("extracted")
    ELSE FALSE

\* a gate that samples inline assets only
GateSample_inline_only(a_type, p) ==
    a_type = W("video") /\ Has(p, "media_bytes")

\* line 271: the gate of sample
GateSample(a_type, p) == a_type = W("video") /\ ~Has(p, "media_bytes")

\* an order with sample before transcribe
NextStep_sample_first(stage) ==
    CASE stage = "transcode" -> "sample"
      [] stage = "sample" -> "transcribe"
      [] stage = "transcribe" -> "enrich"
      [] stage = "enrich" -> "store"
      [] stage = "store" -> "done"

\* an order that returns after enrich
NextStep_no_store(stage) ==
    CASE stage = "transcode" -> "transcribe"
      [] stage = "transcribe" -> "sample"
      [] stage = "sample" -> "enrich"
      [] stage = "enrich" -> "done"
      [] stage = "store" -> "done"

\* the step run_all takes after the step `stage` has returned
NextStep(stage) ==
    CASE stage = "transcode" -> "transcribe"
      [] stage = "transcribe" -> "sample"
      [] stage = "sample" -> "enrich"
      [] stage = "enrich" -> "store"
      [] stage = "store" -> "done"

\* an executor that catches the exception and goes on
StepAfterRaise_swallowed(stage) == NextStep(stage)

\* the step run_all takes after call_service raised in the step `stage`:
\* nothing catches the exception, run_all is left
StepAfterRaise(stage) == "done"

\* line 250: merged.get("status", {}).get("audio")
ReadAudioStatus(m) == Get(Get(m, "status", D(EmptyMap)), "audio", None)

\* lines 282-286: the completion report
CompleteReport(stored_json) ==
    [status |-> 200,
     body |-> D(("pipeline" :> W("complete")) @@ ("timestamp" :> Now)
                @@ ("result" :> stored_json))]

Invoke(endpoint, token_ok, env) ==
    call_service(endpoint \in urls, endpoint, merged, token_ok, env)

\* what a call_service invocation that returned or raised r leaves in the
\* logs
Log(endpoint, token_ok, r) ==
    /\ calls' = Append(calls, endpoint)
    /\ sent' = IF Posted(endpoint \in urls, token_ok)
               THEN Append(sent, [stage |-> endpoint, body |-> merged])
               ELSE sent
    /\ answers' = IF r.kind = "ok"
                  THEN Append(answers, [stage |-> endpoint, body |-> r.body])
                  ELSE answers

\* call_service raised r in the step `stage`
Raise(r, stage) ==
    /\ pc' = StepAfterRaise(stage)
    /\ failed' = stage
    /\ response' = IF StepAfterRaise(stage) = "done" THEN ErrorResponse(r)
                   ELSE response
    /\ UNCHANGED <<payload, merged, alias, audio_status, prev>>

\* the step `stage` is skipped by its gate
Skip(stage) ==
    /\ pc' = NextStep(stage)
    /\ UNCHANGED <<payload, merged, alias, audio_status, prev, calls, sent,
                   answers, failed, response>>

\* lines 235-241
Start ==
    /\ pc = "idle"
    /\ \E d \in Requests :
         LET r == build_initial_payload(d)
         IN /\ data' = d
            /\ IF r.kind = "ok"
               THEN /\ payload' = r.body
                    /\ merged' = r.body
                    /\ alias' = TRUE
                    /\ asset_type' = Get(r.body, "asset_type", None)
                    /\ pc' = "transcode"
                    /\ UNCHANGED <<failed, response>>
               ELSE /\ pc' = "done"
                    /\ failed' = "input"
                    /\ response' = ErrorResponse(r)
                    /\ UNCHANGED <<payload, merged, alias, asset_type>>
    /\ UNCHANGED <<audio_status, urls, calls, sent, answers, prev,
                   gcs_metadata, firestore_assets, notRun>>

\* lines 243-252
TranscodeStep ==
    /\ pc = "transcode"
    /\ IF GateTranscode(asset_type, payload)
       THEN \E token_ok \in BOOLEAN, env \in TranscodeEnvs :
              LET r == Invoke("transcode", token_ok, env)
              IN /\ Log("transcode", token_ok, r)
                 /\ IF r.kind = "ok"
                    THEN /\ merged' = deep_merge(merged, r.body)
                         /\ prev' = merged
                         /\ alias' = FALSE
                         /\ audio_status' =
                              ReadAudioStatus(deep_merge(merged, r.body))
                         /\ pc' = NextStep("transcode")
                         /\ UNCHANGED <<payload, failed, response>>
                    ELSE Raise(r, "transcode")
       ELSE Skip("transcode")
    /\ UNCHANGED <<data, asset_type, urls, gcs_metadata, firestore_assets,
                   notRun>>

\* lines 254-268
TranscribeStep ==
    /\ pc = "transcribe"
    /\ IF should_transcribe(asset_type, audio_status)
       THEN \E token_ok \in BOOLEAN, env \in TranscribeEnvs :
              LET r == Invoke("transcribe", token_ok, env)
              IN /\ Log("transcribe", token_ok, r)
                 /\ IF r.kind = "ok"
                    THEN /\ merged' = deep_merge(merged, r.body)
                         /\ prev' = merged
                         /\ alias' = FALSE
                         /\ pc' = NextStep("transcribe")
                         /\ UNCHANGED <<payload, audio_status, failed,
                                        response>>
                    ELSE Raise(r, "transcribe")
       ELSE Skip("transcribe")
    /\ UNCHANGED <<data, asset_type, urls, gcs_metadata, firestore_assets,
                   notRun>>

\* lines 270-273
SampleStep ==
    /\ pc = "sample"
    /\ IF GateSample(asset_type, payload)
       THEN \E token_ok \in BOOLEAN, env \in SampleEnvs :
              LET r == Invoke("sample", token_ok, env)
              IN /\ Log("sample", token_ok, r)
                 /\ IF r.kind = "ok"
                    THEN /\ merged' = deep_merge(merged, r.body)
                         /\ prev' = merged
                         /\ alias' = FALSE
                         /\ pc' = NextStep("sample")
                         /\ UNCHANGED <<payload, audio_status, failed,
                                        response>>
                    ELSE Raise(r, "sample")
       ELSE Skip("sample")
    /\ UNCHANGED <<data, asset_type, urls, gcs_metadata, firestore_assets,
                   notRun>>

\* lines 275-277: merged["analysis"] = enrich_json assigns in place, so it
\* shows in `payload` too while both name one object
EnrichStep ==
    /\ pc = "enrich"
    /\ \E token_ok \in BOOLEAN, env \in EnrichEnvs :
         LET r == Invoke("enrich", token_ok, env)
         IN /\ Log("enrich", token_ok, r)
            /\ IF r.kind = "ok"
               THEN /\ merged' = Put(merged, "analysis", r.body)
                    /\ payload' = IF alias
                                  THEN Put(merged, "analysis", r.body)
                                  ELSE payload
                    /\ prev' = merged
                    /\ pc' = NextStep("enrich")
                    /\ UNCHANGED <<alias, audio_status, failed, response>>
               ELSE Raise(r, "enrich")
    /\ UNCHANGED <<data, asset_type, urls, gcs_metadata, firestore_assets,
                   notRun>>

\* lines 279-286
StoreStep ==
    /\ pc = "store"
    /\ \E token_ok \in BOOLEAN, env \in StoreEnvs :
         LET r == Invoke("store", token_ok, env)
             w == IF Posted("store" \in urls, token_ok)
                  THEN store_writes(merged, env)
                  ELSE [gcs |-> None, firestore |-> None]
         IN /\ Log("store", token_ok, r)
            /\ gcs_metadata' = IF w.gcs = None THEN gcs_metadata ELSE w.gcs
            /\ firestore_assets' = IF w.firestore = None
                                   THEN firestore_assets ELSE w.firestore
            /\ IF r.kind = "ok"
               THEN /\ response' = CompleteReport(r.body)
                    /\ pc' = NextStep("store")
                    /\ UNCHANGED <<payload, merged, alias, audio_status,
                                   prev, failed>>
               ELSE Raise(r, "store")
    /\ UNCHANGED <<data, asset_type, urls, notRun>>

Init ==
    /\ pc = "idle"
    /\ data = None
    /\ payload = None
    /\ merged = None
    /\ alias = FALSE
    /\ asset_type = None
    /\ audio_status = None
    /\ urls \in UrlConfigs
    /\ calls = <<>>
    /\ sent = <<>>
    /\ answers = <<>>
    /\ failed = "none"
    /\ response = None
    /\ prev = None
    /\ gcs_metadata = None
    /\ firestore_assets = None
    /\ MergeOff
    /\ NormOff
    /\ CredOff
    /\ ValOff
    /\ ProcOff
    /\ InvOff
    /\ RetryOff
    /\ BatchOff

Next ==
    \/ Start
    \/ TranscodeStep
    \/ TranscribeStep
    \/ SampleStep
    \/ EnrichStep
    \/ StoreStep

Spec == Init /\ [][Next]_vars

\* run_all takes no part in a run of another part of the model
RunOff ==
    /\ pc = "off"
    /\ data = None
    /\ payload = None
    /\ merged = None
    /\ alias = FALSE
    /\ asset_type = None
    /\ audio_status = None
    /\ urls = Stages
    /\ calls = <<>>
    /\ sent = <<>>
    /\ answers = <<>>
    /\ failed = "none"
    /\ response = None
    /\ prev = None
    /\ gcs_metadata = None
    /\ firestore_assets = None

----------------------------------------------------------------------------
(* Claims about the Stage Graph Executor *)

Range(q) == {q[i] : i \in 1..Len(q)}
Count(q, x) == Cardinality({i \in 1..Len(q) : q[i] = x})
StageOrder == <<"transcode", "transcribe", "sample", "enrich", "store">>
Rank(stage) == CHOOSE i \in 1..Len(StageOrder) : StageOrder[i] = stage

\* the descriptor was built: run_all is past build_initial_payload
Normalised == pc # "idle" /\ failed # "input"
\* run_all has left the step `stage` behind, by a call or by a skip
Past(stage) ==
    /\ Normalised
    /\ \/ (pc \in Stages /\ Rank(pc) > Rank(stage))
       \/ (pc = "done" /\ failed = "none")
       \/ (pc = "done" /\ failed \in Stages /\ Rank(failed) >= Rank(stage))
\* the audio outcome in the answer of the transcode stage, None without one
ReportedAudio ==
    IF \E i \in 1..Len(answers) : answers[i].stage = "transcode"
    THEN LET a == (CHOOSE i \in 1..Len(answers) :
                       answers[i].stage = "transcode")
         IN answers[a].body.m["status"].m["audio"]
    ELSE None
\* the asset_type of the descriptor
DescriptorType == payload.m["asset_type"]

\* C1: the calls of one execution of run_all follow the order transcode,
\* transcribe, sample, enrich, store: no stage is called after a later one,
\* and none is called twice.
C1_StageOrderFixed ==
    \A i, j \in 1..Len(calls) : i < j => Rank(calls[i]) < Rank(calls[j])

C1_Witness ==
    pc = "done" /\ calls = StageOrder

\* C2: once a stage call has failed hard (no URL, no identity token, or an
\* answer other than 200), it is the last call of the execution: no later
\* stage is called, store in particular.
C2_NoCallAfterHardFailure ==
    failed \in Stages =>
        /\ pc = "done"
        /\ calls # <<>>
        /\ calls[Len(calls)] = failed
        /\ \A x \in Stages : Rank(x) > Rank(failed) => x \notin Range(calls)
        /\ failed # "store" => \A i \in 1..Len(sent) : sent[i].stage # "store"

C2_Witness ==
    /\ failed = "sample"
    /\ calls = <<"transcode", "transcribe", "sample">>
    /\ Len(sent) = Len(calls)
    /\ response.status = 500

\* C3: transcribe is called exactly when asset_type is audio, or asset_type
\* is video and the transcode stage reported the audio outcome "extracted";
\* after "no_audio_present" or "audio_extraction_failed" it is skipped and
\* the execution goes on without an error of the transcribe step.
C3_TranscribeGate ==
    Past("transcribe") =>
        /\ ("transcribe" \in Range(calls)) <=>
              \/ DescriptorType = W("audio")
              \/ (DescriptorType = W("video")
                  /\ ReportedAudio = W("extracted"))
        /\ ReportedAudio \in {W("no_audio_present"),
                              W("audio_extraction_failed")} =>
              /\ "transcribe" \notin Range(calls)
              /\ failed # "transcribe"

C3_Witness ==
    /\ pc = "sample"
    /\ ReportedAudio = W("audio_extraction_failed")
    /\ calls = <<"transcode">>
    /\ failed = "none"

\* C4: for a video whose transcode answer reports "no_audio_present",
\* transcribe is never called, the record sent to store has no transcript
\* field, and an execution that ends without a hard failure reports the
\* pipeline status "complete": the skip is no failure.
C4_NoAudioSkip ==
    (Normalised /\ DescriptorType = W("video")
     /\ ReportedAudio = W("no_audio_present")) =>
        /\ "transcribe" \notin Range(calls)
        /\ failed # "transcribe"
        /\ \A i \in 1..Len(sent) :
              sent[i].stage = "store" =>
                  /\ ~Has(sent[i].body, "transcript")
                  /\ ~Has(sent[i].body.m["analysis"], "transcript")
        /\ (pc = "done" /\ failed = "none") =>
              /\ response.status = 200
              /\ response.body.m["pipeline"] = W("complete")

C4_Witness ==
    /\ pc = "done"
    /\ failed = "none"
    /\ DescriptorType = W("video")
    /\ ReportedAudio = W("no_audio_present")
    /\ calls = <<"transcode", "sample", "enrich", "store">>

\* C5: transcode and sample are called only for assets given by reference:
\* a descriptor with media_bytes never has them called, of any asset_type;
\* a video given by reference has transcode called, and sample too once
\* the steps before it passed without a hard failure.
C5_ReferenceGate ==
    Normalised =>
        /\ Has(payload, "media_bytes") =>
              /\ "transcode" \notin Range(calls)
              /\ "sample" \notin Range(calls)
        /\ (DescriptorType = W("video") /\ ~Has(payload, "media_bytes")) =>
              /\ Past("transcode") => "transcode" \in Range(calls)
              /\ Past("sample") => "sample" \in Range(calls)

C5_Witness ==
    /\ pc = "store"
    /\ Has(payload, "media_bytes")
    /\ DescriptorType = W("video")
    /\ calls = <<"enrich">>

\* C6: when no stage before it fails hard, enrich is called exactly once,
\* and then, unless enrich failed, store exactly once, whatever the
\* asset_type and source and whichever earlier stages were skipped.
C6_EnrichThenStore ==
    /\ Past("enrich") =>
          /\ Count(calls, "enrich") = 1
          /\ Count(calls, "store") = 0 \/ Past("store")
    /\ Past("store") =>
          /\ Count(calls, "store") = 1
          /\ Len(calls) >= 2
          /\ calls[Len(calls) - 1] = "enrich"
          /\ calls[Len(calls)] = "store"

C6_Witness ==
    /\ pc = "done"
    /\ failed = "none"
    /\ DescriptorType = W("image")
    /\ calls = <<"enrich", "store">>

\* the field paths of a record: the key sequences that lead to a value
RECURSIVE FieldPaths(_)
FieldPaths(x) ==
    IF ~IsDict(x) THEN {}
    ELSE UNION {{<<k>>} \cup {<<k>> \o q : q \in FieldPaths(x.m[k])} :
                k \in DOMAIN x.m}

\* C7: the Accumulated Record only grows: every field path of the record
\* before a stage result is accumulated (paths.transcoded.audio,
\* status.audio, ...) is a field path of the record after it.
C7_RecordGrowsMonotonically ==
    prev # None => FieldPaths(prev) \subseteq FieldPaths(merged)

\* C8: after a hard failure of a stage, run_all answers with a failure
\* report {pipeline_status: "failed", failing_stage, diagnostic} that names
\* the stage and carries the partial Accumulated Record.
C8_FailureReportKeepsPartialRecord ==
    (pc = "done" /\ failed \in Stages) =>
        /\ IsDict(response.body)
        /\ Get(response.body, "pipeline_status", None) = W("failed")
        /\ Get(response.body, "failing_stage", None) = W(failed)
        /\ Has(response.body, "diagnostic")
        /\ \E k \in DOMAIN response.body.m : response.body.m[k] = merged

\* C9: enrich and store accept every record the orchestrator sends them:
\* neither answers 400 for a field that a skipped stage or another input
\* shape would have supplied.
C9_EnrichAndStoreAcceptEveryRecord ==
    \A i \in 1..Len(sent) :
        sent[i].stage \in {"enrich", "store"} =>
            post(sent[i].stage, sent[i].body, "ok").status # 400

\* the descriptor build_initial_payload derives from the request
InitialDescriptor == build_initial_payload(data).body

\* C13: once the Normalizer has derived them, asset_id and asset_type never
\* change during one run of run_all: after every stage merge, and in every
\* record sent to a stage (store included), the Accumulated Record's
\* asset_id and asset_type equal those of the initial descriptor, and the
\* gates of all stages read that same asset_type.
C13_IdentityStable ==
    Normalised =>
        /\ Get(merged, "asset_id", None) = Get(InitialDescriptor, "asset_id", None)
        /\ Get(merged, "asset_type", None)
              = Get(InitialDescriptor, "asset_type", None)
        /\ asset_type = Get(InitialDescriptor, "asset_type", None)
        /\ \A i \in 1..Len(sent) :
              /\ Get(sent[i].body, "asset_id", None)
                    = Get(InitialDescriptor, "asset_id", None)
              /\ Get(sent[i].body, "asset_type", None)
                    = Get(InitialDescriptor, "asset_type", None)

\* a video named by the caller went through transcode, transcribe and
\* sample, whose answers were merged, and the record reached store, its
\* file named otherwise than the asset
C13_Witness ==
    /\ pc = "done" /\ failed = "none"
    /\ calls = StageOrder
    /\ Len(answers) = 5
    /\ merged.m["asset_id"] = W("X123")
    /\ merged.m["asset_type"] = W("video")
    /\ S(splitext(basename(merged.m["file_name"].v))[1]) # merged.m["asset_id"]
    /\ sent[5].stage = "store"
    /\ sent[5].body.m["asset_id"] = W("X123")

----------------------------------------------------------------------------
(* The State Accumulator on its own: deep_merge applied to every pair of   *)
(* records of a bounded universe, and applied again to its result.         *)

\* the number of distinct numbers among the leaves
MaxLeaf == 2

Leaves == {Num(i) : i \in 1..MaxLeaf} \cup {L(<<Num(1)>>), L(<<Num(2)>>)}
\* the dicts under the key "c", nested up to two deep
Inner1 == {D(EmptyMap)} \cup {D("c" :> x) : x \in Leaves}
Inner2 == {D(EmptyMap)} \cup {D("c" :> x) : x \in Leaves \cup Inner1}
\* the records: the keys "a" and "b", each absent, a leaf or a nested dict
MergeRecords ==
    {D(f) : f \in UNION {[ks -> Leaves \cup Inner2] : ks \in SUBSET {"a", "b"}}}

MergeInit ==
    /\ mA \in MergeRecords
    /\ mB \in MergeRecords
    /\ mOut = None
    /\ mAgain = None
    /\ mPc = "start"
    /\ RunOff
    /\ NormOff
    /\ CredOff
    /\ ValOff
    /\ ProcOff
    /\ InvOff
    /\ RetryOff
    /\ BatchOff

\* merged = deep_merge(A, B)
MergeOnce ==
    /\ mPc = "start"
    /\ mOut' = deep_merge(mA, mB)
    /\ mPc' = "merged"
    /\ UNCHANGED <<mA, mB, mAgain, notMerge>>

\* deep_merge(A, merged)
MergeAgain ==
    /\ mPc = "merged"
    /\ mAgain' = deep_merge(mA, mOut)
    /\ mPc' = "again"
    /\ UNCHANGED <<mA, mB, mOut, notMerge>>

MergeNext ==
    \/ MergeOnce
    \/ MergeAgain

SpecMerge == MergeInit /\ [][MergeNext]_vars

\* C10: deep_merge is idempotent under re-application:
\* deep_merge(A, deep_merge(A, B)) = deep_merge(A, B).
C10_MergeIdempotent ==
    mPc = "again" => mAgain = mOut

\* both sides hold a dict under the same key, with a conflict inside it
C10_Witness ==
    /\ mPc = "again"
    /\ Has(mA, "a") /\ Has(mB, "a")
    /\ IsDict(mA.m["a"]) /\ IsDict(mB.m["a"])
    /\ Has(mA.m["a"], "c") /\ Has(mB.m["a"], "c")
    /\ mA.m["a"].m["c"] # mB.m["a"].m["c"]
    /\ Has(mA, "b") /\ ~Has(mB, "b")
    /\ mOut # mA /\ mOut # mB

\* the keys of a that b lacks are in out with a's value, at every depth at
\* which both sides hold a dict
RECURSIVE Preserves(_, _, _)
Preserves(a, b, out) ==
    /\ IsDict(out)
    /\ \A key \in DOMAIN a.m :
        /\ key \in DOMAIN out.m
        /\ key \notin DOMAIN b.m => out.m[key] = a.m[key]
        /\ (key \in DOMAIN b.m /\ IsDict(a.m[key]) /\ IsDict(b.m[key])) =>
               Preserves(a.m[key], b.m[key], out.m[key])

\* C11: deep_merge is non-destructive: every key of A that is absent from B
\* is present in deep_merge(A, B) with A's value unchanged, and the same
\* holds recursively inside every key whose value is a map on both sides.
C11_MergeNonDestructive ==
    mPc # "start" => Preserves(mA, mB, mOut)

\* A keeps a key of its own at the top and another one inside a dict that
\* both sides hold
C11_Witness ==
    /\ mPc = "merged"
    /\ Has(mA, "b") /\ ~Has(mB, "b")
    /\ Has(mA, "a") /\ Has(mB, "a")
    /\ IsDict(mA.m["a"]) /\ IsDict(mB.m["a"])
    /\ Has(mA.m["a"], "c") /\ ~Has(mB.m["a"], "c")
    /\ mOut.m["a"].m["c"] = mA.m["a"].m["c"]
    /\ mOut.m["b"] = mA.m["b"]

\* the reference merge as a relation between existing, incoming and result:
\* the result has the keys of both; under a key of incoming it holds the
\* recursive merge when both sides hold a dict and incoming's value
\* otherwise; under any other key it holds existing's value
RECURSIVE ReferenceMerge(_, _, _)
ReferenceMerge(existing, incoming, result) ==
    /\ IsDict(result)
    /\ DOMAIN result.m = DOMAIN existing.m \cup DOMAIN incoming.m
    /\ \A key \in DOMAIN incoming.m :
        IF key \in DOMAIN existing.m /\ IsDict(existing.m[key])
                                      /\ IsDict(incoming.m[key])
        THEN ReferenceMerge(existing.m[key], incoming.m[key], result.m[key])
        ELSE result.m[key] = incoming.m[key]
    /\ \A key \in DOMAIN existing.m \ DOMAIN incoming.m :
        result.m[key] = existing.m[key]

\* every list of incoming is in the result as it is, at every depth at
\* which both sides hold a dict
RECURSIVE ListsReplaced(_, _, _)
ListsReplaced(existing, incoming, result) ==
    \A key \in DOMAIN incoming.m :
        /\ incoming.m[key].t = "l" => result.m[key] = incoming.m[key]
        /\ (key \in DOMAIN existing.m /\ IsDict(existing.m[key])
                                       /\ IsDict(incoming.m[key])) =>
               ListsReplaced(existing.m[key], incoming.m[key], result.m[key])

\* C12: deep_merge(existing, incoming) equals the reference merge for every
\* pair of bounded nested records: for each key of incoming, if the values
\* on both sides are maps the result holds their recursive merge, otherwise
\* the result holds incoming's value; a list value is replaced wholesale by
\* incoming's value and is never concatenated or merged element-wise.
C12_MergeMatchesReference ==
    mPc # "start" =>
        /\ ReferenceMerge(mA, mB, mOut)
        /\ ListsReplaced(mA, mB, mOut)

\* both sides hold a list under one key, two different lists, and a dict
\* under another key, in which incoming overwrites a number by a list
C12_Witness ==
    /\ mPc = "merged"
    /\ Has(mA, "b") /\ Has(mB, "b")
    /\ mA.m["b"] = L(<<Num(1)>>) /\ mB.m["b"] = L(<<Num(2)>>)
    /\ mOut.m["b"] = L(<<Num(2)>>)
    /\ Has(mA, "a") /\ Has(mB, "a")
    /\ IsDict(mA.m["a"]) /\ IsDict(mB.m["a"])
    /\ Has(mA.m["a"], "c") /\ Has(mB.m["a"], "c")
    /\ mA.m["a"].m["c"] = Num(1) /\ mB.m["a"].m["c"] = L(<<Num(1)>>)
    /\ mOut.m["a"].m["c"] = L(<<Num(1)>>)

----------------------------------------------------------------------------
(* The Input Normaliser on its own: build_initial_payload applied to every *)
(* request of at most MaxNormKeys of the keys it reads.                    *)

MaxNormKeys == 3

\* the extensions detect_asset_type_from_filename knows, some in capitals,
\* and one it does not know
NormExts ==
    {"mp4", "mov", "mkv", "avi", "jpg", "jpeg", "png", "webp", "tiff",
     "mp3", "wav", "aac", "MP4", "MOV", "JPG", "Png", "WAV", "txt"}

NormValues ==
    [media_url |-> {S(<<"gs://", "assets", "/", "getty", "/", "x", ".", "mp4">>),
                    S(<<"gs://", "assets", "/", "pic", ".", "JPG">>),
                    S(<<"gs://", "assets", "/", "y">>),
                    S(<<"http://", "e", "/", "x", ".", "mp4">>)},
     media_type |-> {W("video"), W("audio"), W("image"), W("pdf")},
     media_bytes |-> {W("AAAA")},
     source |-> {W("getty"), W("upload")},
     asset_id |-> {W("X123")},
     file_name |-> {S(<<"raw", "/", "clip1", ".", e>>) : e \in NormExts}
                   \cup {S(<<"notes">>), S(<<"raw", "/">>)},
     bucket |-> {W("assets")},
     url |-> {S(<<"http://", "e", "/", "x", ".", "mp4">>)},
     getty_metadata |-> {D("title" :> W("t"))}]

RECURSIVE NormDictsOver(_)
NormDictsOver(ks) ==
    IF ks = {} THEN {EmptyMap}
    ELSE LET k == CHOOSE x \in ks : TRUE
         IN {(k :> v) @@ f : v \in NormValues[k],
                             f \in NormDictsOver(ks \ {k})}

NormRequests ==
    UNION {{D(f) : f \in NormDictsOver(ks)} :
           ks \in {x \in SUBSET DOMAIN NormValues :
                      Cardinality(x) <= MaxNormKeys}}

NormInit ==
    /\ nReq \in NormRequests
    /\ nOut = None
    /\ nPc = "start"
    /\ RunOff
    /\ MergeOff
    /\ CredOff
    /\ ValOff
    /\ ProcOff
    /\ InvOff
    /\ RetryOff
    /\ BatchOff

\* payload = build_initial_payload(data)
Normalise ==
    /\ nPc = "start"
    /\ nOut' = build_initial_payload(nReq)
    /\ nPc' = "built"
    /\ UNCHANGED <<nReq, notNorm>>

NormNext == Normalise

SpecNorm == NormInit /\ [][NormNext]_vars

\* the request matches one of the shapes build_initial_payload supports
MatchesShape(req) ==
    \/ Has(req, "media_url")
    \/ /\ Has(req, "media_bytes")
       /\ Has(req, "media_type") \/ Get(req, "source", None) = W("getty")
    \/ Has(req, "file_name") /\ Has(req, "bucket")
    \/ Has(req, "url")

AssetTypes == {W("video"), W("image"), W("audio"), W("unknown")}

\* C14: for every raw input that matches one of the recognised shapes
\* (media_url, inline media_bytes, file_name + bucket, url),
\* build_initial_payload returns a descriptor whose asset_id is a non-empty
\* string and whose asset_type is one of video, image, audio or unknown.
\* (Stated of the descriptors that are returned: a request whose media_url
\* is no gs:// URL is answered 400.)
C14_DescriptorWellFormed ==
    (nPc = "built" /\ MatchesShape(nReq) /\ nOut.kind = "ok") =>
        /\ Has(nOut.body, "asset_id")
        /\ IsStr(nOut.body.m["asset_id"])
        /\ nOut.body.m["asset_id"].v # <<>>
        /\ Has(nOut.body, "asset_type")
        /\ nOut.body.m["asset_type"] \in AssetTypes

\* C15: when the request matches none of the recognised input shapes (no
\* media_url; no media_bytes together with media_type or source 'getty';
\* no file_name together with bucket; no url), build_initial_payload fails
\* with InvalidInput (HTTP 400), the failure is the answer of run_all at
\* once, and run_all issues no call to any stage.
C15_InvalidInputRejected ==
    (pc \notin {"idle", "off"} /\ ~MatchesShape(data)) =>
        /\ build_initial_payload(data) = Http(400, W("Invalid input"))
        /\ pc = "done"
        /\ failed = "input"
        /\ response = [status |-> 400,
                       body |-> D("detail" :> W("Invalid input"))]
        /\ calls = <<>>
        /\ sent = <<>>

\* inline bytes that come with neither a media_type nor the source getty
\* were rejected, although every stage URL is configured
C15_Witness ==
    /\ pc = "done"
    /\ Has(data, "media_bytes") /\ Has(data, "file_name")
    /\ Get(data, "source", None) = W("upload")
    /\ urls = Stages
    /\ response.status = 400
    /\ calls = <<>>

\* the file name a descriptor carries: the object name of the media_url in
\* shape 1, the file_name in shape 4
CarriesFileName == nOut.kind = "ok" /\ Has(nOut.body, "file_name")
\* the request carries an explicit type of one of the three kinds
ExplicitType ==
    Get(nReq, "media_type", None) \in {W("image"), W("video"), W("audio")}

\* the extensions of each kind, as the claim lists them
ExtensionKind(ext) ==
    CASE ext \in {"mp4", "mov", "mkv", "avi"} -> W("video")
      [] ext \in {"jpg", "jpeg", "png", "webp", "tiff"} -> W("image")
      [] ext \in {"mp3", "wav", "aac"} -> W("audio")
      [] OTHER -> W("unknown")
\* the kind of the last extension of a file name, capitals or not; unknown
\* without an extension
FileNameKind(file_name) ==
    LET n == Len(file_name)
    IN IF n >= 3 /\ file_name[n - 1] = "." /\ file_name[n - 2] \notin {"/", "."}
                /\ file_name[n] \notin {"/", "."}
       THEN ExtensionKind(LowerTok(file_name[n]))
       ELSE W("unknown")

\* C16: the Normalizer determines asset_type by priority: from the explicit
\* type field when it is present (a value in {image, video, audio}),
\* otherwise from the file-name extension (.mp4/.mov/.mkv/.avi video,
\* .jpg/.jpeg/.png/.webp/.tiff image, .mp3/.wav/.aac audio, in any case),
\* otherwise from a declared media kind; for each input shape that carries
\* a file name or an explicit type.  (The last resort is left open here.)
C16_TypeByPriority ==
    (nPc = "built" /\ nOut.kind = "ok") =>
        LET a_type == nOut.body.m["asset_type"]
        IN /\ ExplicitType => a_type = nReq.m["media_type"]
           /\ (~ExplicitType /\ CarriesFileName
               /\ FileNameKind(nOut.body.m["file_name"].v) # W("unknown")) =>
                  a_type = FileNameKind(nOut.body.m["file_name"].v)

----------------------------------------------------------------------------
(* Credential Cache of the catalog ingestor (getty_ingestor/main.py):      *)
(* get_getty_access_token over the globals _getty_token and                *)
(* _getty_token_expiry.  The handlers that call it are coroutines that     *)
(* block on it, so a call runs from start to end before the next one.      *)

\* the last instant of the clock
MaxClock == 240
\* the number of calls of one run
MaxTokenCalls == 4

\* line 45: the margin kept before the expiry, in seconds
RefreshMargin == 60
\* lines 79 and 83: the lifetime taken when the answer gives none
DefaultExpiresIn == 1800

\* the steps by which the clock advances between two calls
Advances == {30, 60}

\* int(expires_raw): [ok, v]; not ok is TypeError or ValueError
IntOf(x) ==
    IF x.t = "i" THEN [ok |-> TRUE, v |-> x.v]
    ELSE IF x.t = "f" THEN [ok |-> TRUE, v |-> x.v]
    ELSE IF x = W("120") THEN [ok |-> TRUE, v |-> 120]
    ELSE [ok |-> FALSE, v |-> 0]

\* what the OAuth2 endpoint can answer: no answer at all (a transport
\* error), a refusal, or a 200 with a body
TokenBodies ==
    {D(EmptyMap), D("access_token" :> S(<<>>))}
    \cup {D("access_token" :> W("tok"))}
    \cup {D(("access_token" :> W("tok")) @@ ("expires_in" :> e)) :
            e \in {Num(30), Num(120), W("120"), W("soon"), None}}
TokenAnswers ==
    {[kind |-> "transport", status_code |-> 0, body |-> None],
     [kind |-> "resp", status_code |-> 401, body |-> D(EmptyMap)]}
    \cup {[kind |-> "resp", status_code |-> 200, body |-> b] : b \in TokenBodies}

\* a cache that trusts the token up to its declared expiry
TokenStillValid_until_expiry(token, expiry, now) ==
    Truthy(token) /\ now < expiry

\* a cache that trusts any token it holds
TokenStillValid_any_token(token, expiry, now) == Truthy(token)

\* line 45: _getty_token and now < _getty_token_expiry - 60
TokenStillValid(token, expiry, now) ==
    Truthy(token) /\ now < expiry - RefreshMargin

\* get_getty_access_token: what it returns or raises (kind, value, status),
\* the number of requests it sent to the endpoint, and the globals after it
get_getty_access_token(token, expiry, now, ans) ==
    LET raised(code) ==
            [kind |-> "http", value |-> None, status |-> code, posts |-> 1,
             token |-> token, expiry |-> expiry]
    IN IF TokenStillValid(token, expiry, now)
       THEN [kind |-> "ok", value |-> token, status |-> 200, posts |-> 0,
             token |-> token, expiry |-> expiry]
       ELSE IF ans.kind = "transport" THEN raised(500)
       ELSE IF ans.status_code # 200 THEN raised(ans.status_code)
       ELSE IF ~Truthy(Get(ans.body, "access_token", None)) THEN raised(500)
       ELSE LET expires_raw == Get(ans.body, "expires_in",
                                   Num(DefaultExpiresIn))
                expires_in == IF IntOf(expires_raw).ok
                              THEN IntOf(expires_raw).v
                              ELSE DefaultExpiresIn
            IN [kind |-> "ok", value |-> ans.body.m["access_token"],
                status |-> 200, posts |-> 1,
                token |-> ans.body.m["access_token"],
                expiry |-> now + expires_in]

CredInit ==
    /\ CredOff
    /\ ValOff
    /\ ProcOff
    /\ InvOff
    /\ RetryOff
    /\ BatchOff
    /\ RunOff
    /\ MergeOff
    /\ NormOff

\* time passes between two calls
Advance ==
    /\ \E d \in Advances :
         /\ clock + d <= MaxClock
         /\ clock' = clock + d
    /\ UNCHANGED <<getty_token, getty_token_expiry, tokenLog, notCred>>

\* one call of get_getty_access_token
RequestToken ==
    /\ Len(tokenLog) < MaxTokenCalls
    /\ \E ans \in TokenAnswers :
         LET r == get_getty_access_token(getty_token, getty_token_expiry,
                                         clock, ans)
         IN /\ getty_token' = r.token
            /\ getty_token_expiry' = r.expiry
            /\ tokenLog' = Append(tokenLog,
                   [at |-> clock, held |-> getty_token,
                    heldExpiry |-> getty_token_expiry, kind |-> r.kind,
                    value |-> r.value, status |-> r.status,
                    posts |-> r.posts])
    /\ UNCHANGED <<clock, notCred>>

CredNext ==
    \/ Advance
    \/ RequestToken

SpecCred == CredInit /\ [][CredNext]_vars

\* the acquisition requests sent by the calls i..j of the log
RECURSIVE PostsBetween(_, _)
PostsBetween(i, j) ==
    IF i > j THEN 0 ELSE tokenLog[i].posts + PostsBetween(i + 1, j)
\* the call i acquired a token
Acquired(i) == tokenLog[i].posts = 1 /\ tokenLog[i].kind = "ok"
\* the declared expiry of the token the call i acquired
DeclaredExpiry(i) ==
    LET e == tokenLog[i + 1].heldExpiry
    IN IF i < Len(tokenLog) THEN e ELSE getty_token_expiry

\* C17, as stated: a credential requested twice inside its validity window
\* (both requests before the token's declared expiry) triggers exactly one
\* acquisition request in total; a credential requested after expiry
\* triggers exactly one refresh, and further requests inside the new window
\* trigger none.
C17_OneAcquisitionPerDeclaredWindow ==
    /\ \A i, j \in 1..Len(tokenLog) :
         (/\ i < j /\ Acquired(i)
          /\ \A k \in i..j : tokenLog[k].at < DeclaredExpiry(i)) =>
             PostsBetween(i, j) = 1
    /\ \A j \in 1..Len(tokenLog) :
         (Truthy(tokenLog[j].held) /\ tokenLog[j].at >= tokenLog[j].heldExpiry)
             => tokenLog[j].posts = 1

\* C17, amended: the window of a token ends RefreshMargin seconds before
\* its declared expiry.  Requests that all come earlier than that trigger
\* one acquisition request in total, the one that acquired the token; a
\* request that comes later, or with no token cached, triggers exactly one.
C17_OneAcquisitionPerWindow ==
    /\ \A i, j \in 1..Len(tokenLog) :
         (/\ i < j /\ Acquired(i)
          /\ \A k \in i..j :
                tokenLog[k].at < DeclaredExpiry(i) - RefreshMargin) =>
             PostsBetween(i, j) = 1
    /\ \A j \in 1..Len(tokenLog) :
         (~Truthy(tokenLog[j].held)
          \/ tokenLog[j].at >= tokenLog[j].heldExpiry - RefreshMargin)
             => tokenLog[j].posts = 1

\* a token was acquired and requested again in its window; it was
\* refreshed by a request in the last RefreshMargin seconds before its
\* declared expiry, and requested again in the new window
C17_Witness ==
    /\ Len(tokenLog) = 4
    /\ Acquired(1)
    /\ tokenLog[2].at > tokenLog[1].at /\ tokenLog[2].posts = 0
    /\ tokenLog[2].value = tokenLog[1].value
    /\ tokenLog[3].at >= tokenLog[3].heldExpiry - RefreshMargin
    /\ tokenLog[3].at < tokenLog[3].heldExpiry
    /\ Acquired(3)
    /\ tokenLog[4].at > tokenLog[3].at /\ tokenLog[4].posts = 0

----------------------------------------------------------------------------
(* Catalog enricher (getty_enricher/main.py): POST /validate.  It searches *)
(* the catalog page by page for candidate ids, then gathers one            *)
(* process_one coroutine per candidate.  No coroutine awaits, so the event *)
(* loop runs them one after the other, in the order of the candidates.     *)

\* the pages of the catalog
MaxPages == 2
\* the number of videos of a page
MaxPageSize == 2

\* lines 136 and 168: the attempts of fetch_asset_metadata
MetadataAttempts == 3
\* line 13: MAX_DOWNLOAD_RETRIES
MAX_DOWNLOAD_RETRIES == 5
\* line 234: the count taken when the body gives none
DefaultCount == 2

CatalogIds == {W("a1"), W("a2"), W("a3")}

\* get_access_token of the enricher: every call asks the OAuth2 endpoint
get_access_token(ans) ==
    IF ans.kind = "transport" THEN Http(502, W("Getty token request failed"))
    ELSE IF ans.status_code # 200
    THEN Http(ans.status_code, W("Getty token error"))
    ELSE IF ~Truthy(Get(ans.body, "access_token", None))
    THEN Http(502, W("Getty token response missing access_token"))
    ELSE Ok(ans.body.m["access_token"])

\* a video the catalog lists without a file_download_url
NotDownloadable == W("b1")
\* the videos a search page can list: with id and file_download_url, or
\* with one of them missing
VideoEntries ==
    {D(("id" :> x) @@ ("file_download_url" :> W("u"))) : x \in CatalogIds}
    \cup {D("id" :> NotDownloadable), D("file_download_url" :> W("u"))}
RECURSIVE SeqsUpTo(_, _)
SeqsUpTo(set, n) ==
    IF n = 0 THEN {<<>>}
    ELSE SeqsUpTo(set, n - 1)
         \cup {Append(q, x) : q \in SeqsUpTo(set, n - 1), x \in set}
\* what the search endpoint can answer
PageAnswers ==
    {[kind |-> "transport", status_code |-> 0, videos |-> <<>>],
     [kind |-> "resp", status_code |-> 500, videos |-> <<>>]}
    \cup {[kind |-> "resp", status_code |-> 200, videos |-> q] :
            q \in SeqsUpTo(VideoEntries, MaxPageSize)}

\* a scan that does not look at _seen_ids
RECURSIVE ScanVideos_forgetful(_, _, _, _, _)
ScanVideos_forgetful(videos, ids, seen, docs, count) ==
    IF videos = <<>> THEN [ids |-> ids, seen |-> seen]
    ELSE LET v == Head(videos)
             vid == Get(v, "id", None)
             url == Get(v, "file_download_url", None)
         IN IF ~Truthy(vid) \/ ~Truthy(url)
            THEN ScanVideos_forgetful(Tail(videos), ids, seen, docs, count)
            ELSE IF vid \in docs
            THEN ScanVideos_forgetful(Tail(videos), ids, seen \cup {vid},
                                      docs, count)
            ELSE IF Len(ids) + 1 >= count
            THEN [ids |-> Append(ids, vid), seen |-> seen \cup {vid}]
            ELSE ScanVideos_forgetful(Tail(videos), Append(ids, vid),
                                      seen \cup {vid}, docs, count)

\* a scan that takes every video with an id
RECURSIVE ScanVideos_any_entry(_, _, _, _, _)
ScanVideos_any_entry(videos, ids, seen, docs, count) ==
    IF videos = <<>> THEN [ids |-> ids, seen |-> seen]
    ELSE LET v == Head(videos)
             vid == Get(v, "id", None)
         IN IF ~Truthy(vid) \/ vid \in seen
            THEN ScanVideos_any_entry(Tail(videos), ids, seen, docs, count)
            ELSE IF Len(ids) + 1 >= count
            THEN [ids |-> Append(ids, vid), seen |-> seen \cup {vid}]
            ELSE ScanVideos_any_entry(Tail(videos), Append(ids, vid),
                                      seen \cup {vid}, docs, count)

\* lines 108-123: the loop over the videos of one page; [ids, seen]
RECURSIVE ScanVideos(_, _, _, _, _)
ScanVideos(videos, ids, seen, docs, count) ==
    IF videos = <<>> THEN [ids |-> ids, seen |-> seen]
    ELSE LET v == Head(videos)
             vid == Get(v, "id", None)
             url == Get(v, "file_download_url", None)
         IN IF ~Truthy(vid) \/ ~Truthy(url)
            THEN ScanVideos(Tail(videos), ids, seen, docs, count)
            ELSE IF vid \in seen
            THEN ScanVideos(Tail(videos), ids, seen, docs, count)
            ELSE IF vid \in docs
            THEN ScanVideos(Tail(videos), ids, seen \cup {vid}, docs, count)
            ELSE IF Len(ids) + 1 >= count
            THEN [ids |-> Append(ids, vid), seen |-> seen \cup {vid}]
            ELSE ScanVideos(Tail(videos), Append(ids, vid),
                            seen \cup {vid}, docs, count)

\* the values of "count" /validate is driven with
CountInputs ==
    {None, Num(0), Num(1), Num(2), W("many"), Flt(1, 5), Flt(0, 5)}
\* the bodies of POST /validate
ValidateBodies == {D(EmptyMap)} \cup {D("count" :> c) : c \in CountInputs}

\* a request of the enricher, as the log keeps it
Event(op, by, ok) == [op |-> op, by |-> by, ok |-> ok]

\* validate raised: FastAPI answers with the status of the HTTPException
ValidateRaise(r) ==
    /\ vPc' = "done"
    /\ vResponse' = [status |-> r.status, body |-> D("detail" :> r.detail)]

\* lines 232-238
ValidateStart ==
    /\ vPc = "idle"
    /\ \E body \in ValidateBodies :
         LET raw == Get(body, "count", Num(DefaultCount))
         IN /\ vBody' = body
            /\ IF IntOf(raw).ok /\ IntOf(raw).v > 0
               THEN /\ vCount' = IntOf(raw).v
                    /\ vPc' = "search"
                    /\ UNCHANGED vResponse
               ELSE /\ ValidateRaise(Http(400, W("Invalid 'count' value")))
                    /\ UNCHANGED vCount
    /\ UNCHANGED <<vSuccesses, vPage, vIds, vSeen, vDocs, vCandidates, vTask,
                   vTaskPc, vAttempt, vAsset, vResults, vEvents, vSteps,
                   notVal>>

\* lines 245 and 76-81: search_downloadable_asset_ids asks for a token
SearchToken ==
    /\ vPc = "search"
    /\ \E ans \in TokenAnswers :
         LET r == get_access_token(ans)
         IN /\ vEvents' = Append(vEvents, Event("token", W("search"),
                                                r.kind = "ok"))
            /\ IF r.kind = "ok"
               THEN /\ vPc' = "page"
                    /\ vPage' = 1
                    /\ vIds' = <<>>
                    /\ UNCHANGED vResponse
               ELSE /\ ValidateRaise(r)
                    /\ UNCHANGED <<vPage, vIds>>
    /\ UNCHANGED <<vBody, vCount, vSuccesses, vSeen, vDocs, vCandidates, vTask,
                   vTaskPc, vAttempt, vAsset, vResults, vSteps, notVal>>

\* lines 83-127: one turn of the paging loop.  The catalog has MaxPages
\* pages and lists nothing on a page after the last one.  Page
\* MaxPages + 1 is the first page after the last one; the pages after it
\* are one position, MaxPages + 2
SearchPage ==
    /\ vPc = "page"
    /\ \E ans \in PageAnswers :
         /\ vPage > MaxPages => ans.videos = <<>>
         /\ IF ans.kind = "transport"
            THEN UNCHANGED <<vPc, vPage, vIds, vSeen, vCandidates, vTask,
                             vTaskPc, vResults, vSteps>>
            ELSE LET needed == vCount - Len(vSuccesses)
                     videos == IF ans.status_code # 200 THEN <<>>
                               ELSE ans.videos
                     r == ScanVideos(videos, vIds, vSeen, vDocs, needed)
                 IN /\ vPage' = IF vPage > MaxPages + 1 THEN vPage ELSE vPage + 1
                    /\ vIds' = r.ids
                    /\ vSeen' = r.seen
                    /\ IF Len(r.ids) >= needed
                       THEN /\ vCandidates' = r.ids
                            /\ vSteps' = vSteps \cup
                                  {<<x, "returned">> : x \in Range(r.ids)}
                            /\ vPc' = "gather"
                            /\ vTask' = 1
                            /\ vTaskPc' = "check"
                            /\ vResults' = <<>>
                       ELSE UNCHANGED <<vPc, vCandidates, vTask, vTaskPc,
                                        vResults, vSteps>>
    /\ UNCHANGED <<vBody, vCount, vSuccesses, vDocs, vAttempt, vAsset, vEvents,
                   vResponse, notVal>>

\* the candidate the running coroutine works on
TaskId == vCandidates[vTask]

\* what the asset endpoint can answer
MetaAnswers ==
    {[kind |-> "transport", status_code |-> 0, body |-> None],
     [kind |-> "resp", status_code |-> 404, body |-> None],
     [kind |-> "resp", status_code |-> 500, body |-> None],
     [kind |-> "resp", status_code |-> 200, body |-> D(EmptyMap)],
     [kind |-> "resp", status_code |-> 200,
      body |-> D("asset" :> D("title" :> W("t")))],
     [kind |-> "resp", status_code |-> 200,
      body |-> D("asset" :> D(("title" :> W("t"))
                              @@ ("file_download_url" :> W("u"))))]}

\* what a download attempt can meet: no answer, a refusal, a 200 whose
\* upload to the bucket succeeds, a 200 whose upload raises
DownloadAnswers == {"transport", "refused", "uploaded", "upload_raised"}

\* the steps in `done` are over for the candidate the coroutine works on
Mark(done) == vSteps' = vSteps \cup {<<TaskId, x>> : x \in done}

\* process_one returned or raised: gather keeps the outcome and the event
\* loop runs the next coroutine, or validate goes on after the gather
FinishTask(outcome, done) ==
    /\ vResults' = Append(vResults, outcome)
    /\ Mark(done \cup {outcome.status})
    /\ vAttempt' = 0
    /\ vAsset' = None
    /\ IF vTask < Len(vCandidates)
       THEN /\ vTask' = vTask + 1
            /\ vTaskPc' = "check"
            /\ UNCHANGED vPc
       ELSE /\ vTask' = 0
            /\ vTaskPc' = "none"
            /\ vPc' = "collect"

Raised(code) == [status |-> "error", asset_id |-> TaskId, code |-> code]

\* lines 248-250
TaskCheck ==
    /\ vPc = "gather" /\ vTaskPc = "check"
    /\ IF TaskId \in vDocs
       THEN FinishTask([status |-> "skipped_duplicate", asset_id |-> TaskId,
                        code |-> 200], {})
       ELSE /\ vTaskPc' = "token"
            /\ UNCHANGED <<vPc, vTask, vAttempt, vAsset, vResults, vSteps>>
    /\ UNCHANGED <<vBody, vCount, vSuccesses, vPage, vIds, vSeen, vDocs, vCandidates,
                   vEvents, vResponse, notVal>>

\* lines 253 and 131-133: fetch_asset_metadata asks for a token
TaskToken ==
    /\ vPc = "gather" /\ vTaskPc = "token"
    /\ \E ans \in TokenAnswers :
         LET r == get_access_token(ans)
         IN /\ vEvents' = Append(vEvents, Event("token", TaskId,
                                                r.kind = "ok"))
            /\ IF r.kind = "ok"
               THEN /\ vTaskPc' = "meta"
                    /\ vAttempt' = 0
                    /\ UNCHANGED <<vPc, vTask, vAsset, vResults, vSteps>>
               ELSE FinishTask(Raised(r.status), {})
    /\ UNCHANGED <<vBody, vCount, vSuccesses, vPage, vIds, vSeen, vDocs, vCandidates,
                   vResponse, notVal>>

\* lines 136-168 and 254-257: one attempt of fetch_asset_metadata
TaskMeta ==
    /\ vPc = "gather" /\ vTaskPc = "meta"
    /\ \E ans \in MetaAnswers :
         LET asset == Get(ans.body, "asset", None)
             found == ans.kind = "resp" /\ ans.status_code = 200
                      /\ Truthy(asset)
         IN /\ UNCHANGED vEvents
            /\ IF ans.kind = "resp" /\ ans.status_code = 404
               THEN FinishTask(Raised(404), {})
               ELSE IF found
               THEN IF Truthy(Get(asset, "file_download_url", None))
                    THEN /\ vAsset' = asset
                         /\ vTaskPc' = "download"
                         /\ vAttempt' = 0
                         /\ Mark({"metadata"})
                         /\ UNCHANGED <<vPc, vTask, vResults>>
                    ELSE FinishTask(Raised(502), {"metadata"})
               ELSE IF vAttempt + 1 < MetadataAttempts
               THEN /\ vAttempt' = vAttempt + 1
                    /\ UNCHANGED <<vPc, vTask, vTaskPc, vAsset, vResults,
                                   vSteps>>
               ELSE FinishTask(Raised(502), {})
    /\ UNCHANGED <<vBody, vCount, vSuccesses, vPage, vIds, vSeen, vDocs, vCandidates,
                   vResponse, notVal>>

\* a coroutine that writes the record although the download gave up
TaskDownload_write_regardless ==
    /\ vPc = "gather" /\ vTaskPc = "download"
    /\ \E ans \in DownloadAnswers :
         /\ UNCHANGED vEvents
         /\ IF ans = "uploaded"
            THEN /\ vTaskPc' = "write"
                 /\ Mark({"download"})
                 /\ UNCHANGED <<vPc, vTask, vAttempt, vAsset, vResults>>
            ELSE IF ans = "upload_raised"
            THEN FinishTask(Raised(500), {})
            ELSE IF vAttempt + 1 < MAX_DOWNLOAD_RETRIES
            THEN /\ vAttempt' = vAttempt + 1
                 /\ UNCHANGED <<vPc, vTask, vTaskPc, vAsset, vResults,
                                vSteps>>
            ELSE /\ vTaskPc' = "write"
                 /\ UNCHANGED <<vPc, vTask, vAttempt, vAsset, vResults,
                                vSteps>>
    /\ UNCHANGED <<vBody, vCount, vSuccesses, vPage, vIds, vSeen, vDocs,
                   vCandidates, vResponse, notVal>>

\* lines 182-198 and 260: one attempt of download_to_gcs_with_retries
TaskDownload ==
    /\ vPc = "gather" /\ vTaskPc = "download"
    /\ \E ans \in DownloadAnswers :
         /\ UNCHANGED vEvents
         /\ IF ans = "uploaded"
            THEN /\ vTaskPc' = "write"
                 /\ Mark({"download"})
                 /\ UNCHANGED <<vPc, vTask, vAttempt, vAsset, vResults>>
            ELSE IF ans = "upload_raised"
            THEN FinishTask(Raised(500), {})
            ELSE IF vAttempt + 1 < MAX_DOWNLOAD_RETRIES
            THEN /\ vAttempt' = vAttempt + 1
                 /\ UNCHANGED <<vPc, vTask, vTaskPc, vAsset, vResults,
                                vSteps>>
            ELSE FinishTask(Raised(502), {})
    /\ UNCHANGED <<vBody, vCount, vSuccesses, vPage, vIds, vSeen, vDocs, vCandidates,
                   vResponse, notVal>>

\* lines 263-271 and 201-210: write_record, which may raise
TaskWrite ==
    /\ vPc = "gather" /\ vTaskPc = "write"
    /\ \E written \in BOOLEAN :
         /\ UNCHANGED vEvents
         /\ IF written
            THEN /\ vDocs' = vDocs \cup {TaskId}
                 /\ FinishTask([status |-> "fetched", asset_id |-> TaskId,
                                code |-> 200], {"written"})
            ELSE /\ FinishTask(Raised(500), {})
                 /\ UNCHANGED vDocs
    /\ UNCHANGED <<vBody, vCount, vSuccesses, vPage, vIds, vSeen, vCandidates,
                   vResponse, notVal>>

\* the asset ids of the outcomes that are dicts with status "fetched"
RECURSIVE Fetched(_)
Fetched(results) ==
    IF results = <<>> THEN <<>>
    ELSE IF Head(results).status = "fetched"
    THEN <<Head(results).asset_id>> \o Fetched(Tail(results))
    ELSE Fetched(Tail(results))

\* lines 279-288: after the gather
Collect ==
    /\ vPc = "collect"
    /\ LET successes == vSuccesses \o Fetched(vResults)
       IN /\ vSuccesses' = successes
          /\ IF Len(vCandidates) = 0
             THEN ValidateRaise(Http(502, W("No downloadable assets")))
             ELSE IF Len(successes) < vCount
             THEN /\ vPc' = "search"
                  /\ UNCHANGED vResponse
             ELSE /\ vPc' = "done"
                  /\ vResponse' =
                       [status |-> 200,
                        body |-> D("assets" :>
                                     L(SubSeq(successes, 1, vCount)))]
    /\ UNCHANGED <<vBody, vCount, vPage, vIds, vSeen, vDocs, vCandidates, vTask,
                   vTaskPc, vAttempt, vAsset, vResults, vEvents, vSteps,
                   notVal>>

\* the container has started: nothing seen; Firestore may hold a record
ValInit ==
    /\ vPc = "idle" /\ vCount = 0 /\ vSuccesses = <<>> /\ vPage = 0
    /\ vIds = <<>> /\ vSeen = {}
    /\ vDocs \in {{}, {W("a1")}}
    /\ vCandidates = <<>>
    /\ vTask = 0 /\ vTaskPc = "none" /\ vAttempt = 0
    /\ vAsset = None /\ vResults = <<>> /\ vEvents = <<>>
    /\ vResponse = None /\ vSteps = {} /\ vBody = None
    /\ RunOff
    /\ MergeOff
    /\ NormOff
    /\ CredOff
    /\ ProcOff
    /\ InvOff
    /\ RetryOff
    /\ BatchOff

ValNext ==
    \/ ValidateStart
    \/ SearchToken
    \/ SearchPage
    \/ TaskCheck
    \/ TaskToken
    \/ TaskMeta
    \/ TaskDownload
    \/ TaskWrite
    \/ Collect

SpecValidate == ValInit /\ [][ValNext]_vars

\* the requests sent to the OAuth2 endpoint on behalf of the coroutines of
\* the gather that runs (a candidate is gathered once: it is in _seen_ids)
BatchTokenRequests ==
    {i \in 1..Len(vEvents) :
        vEvents[i].op = "token" /\ vEvents[i].by \in Range(vCandidates)}

\* C18: when several callers request the credential concurrently while no
\* valid token is cached, their refreshes collapse to one: at most one
\* acquisition request is performed and every caller receives its result.
\* Here the callers are the process_one coroutines of one gather: once one
\* of them has acquired a token, no other one sends a request of its own.
C18_RefreshesCollapse ==
    \A i, j \in BatchTokenRequests : (i < j) => ~vEvents[i].ok

\* the step `step` is over for asset x in this request
Did(x, step) == <<x, step>> \in vSteps
\* every id a search page can list
ListedIds == CatalogIds \cup {NotDownloadable}
\* the ids the search appends to `ids` in a step
NewIds == {vIds'[k] : k \in (Len(vIds) + 1)..Len(vIds')}
\* the step in which search_downloadable_asset_ids returns
SearchReturns == vPc = "page" /\ vPc' = "gather"

\* C21: across the searches of one process lifetime, an id already in
\* _seen_ids is skipped: an id the search takes was not in _seen_ids and is
\* in it afterwards, _seen_ids only grows, and no id a search returns was
\* returned by an earlier call.
C21_SeenIdsSkipped ==
    [][/\ vSeen \subseteq vSeen'
       /\ vPc = "page" =>
            \A x \in NewIds : x \notin vSeen /\ x \in vSeen'
       /\ SearchReturns =>
            \A x \in Range(vCandidates') :
                x \in vSeen' /\ ~Did(x, "returned")]_vars

\* a second search has returned an id while the id of the failed first
\* batch and an id with a Firestore record are in _seen_ids
C21_Witness ==
    /\ vPc = "gather"
    /\ \E x \in vSeen : Did(x, "error") /\ x \notin Range(vCandidates)
    /\ \E y \in vSeen \cap vDocs : ~Did(y, "returned")

\* C22: when the catalog is exhausted without enough candidates, the
\* search ends and /validate fails: once a page after the last page of the
\* catalog came back, no further page is asked for.
C22_SearchEndsWhenExhausted == vPc = "page" => vPage <= MaxPages + 1

\* C23: when search_downloadable_asset_ids(count) returns, it returns
\* exactly count pairwise-distinct ids, each listed with an id and a
\* file_download_url and none with a Firestore record when selected.
C23_ReturnsCountDownloadable ==
    [][SearchReturns =>
         /\ Len(vCandidates') = vCount - Len(vSuccesses)
         /\ \A i, j \in DOMAIN vCandidates' :
              i # j => vCandidates'[i] # vCandidates'[j]
         /\ \A x \in Range(vCandidates') :
              x \in CatalogIds /\ x \notin vDocs]_vars

\* a search for two ids has returned while Firestore holds a record
C23_Witness ==
    /\ vPc = "gather" /\ vTask = 1 /\ vTaskPc = "check"
    /\ Len(vCandidates) = 2
    /\ vDocs # {}

\* C24: the Firestore record of an asset is written only after its metadata
\* fetch and its download both succeeded, and an asset whose processing
\* failed gets no record from the request.
C24_RecordAfterBothSteps ==
    \A x \in ListedIds :
        /\ Did(x, "written") => Did(x, "metadata") /\ Did(x, "download")
        /\ (Did(x, "returned") /\ x \in vDocs) => Did(x, "written")
        /\ Did(x, "error") => ~Did(x, "written") /\ x \notin vDocs

\* one asset is written and the download of another one has given up
C24_Witness ==
    \E x, y \in CatalogIds :
        /\ Did(x, "written") /\ x \in vDocs
        /\ Did(y, "metadata") /\ ~Did(y, "download") /\ Did(y, "error")

\* the "count" of the request
RequestedCount == Get(vBody, "count", Num(DefaultCount))
\* the assets of a success response
ResponseAssets == vResponse.body.m["assets"].v

\* C25: a success response of /validate lists exactly count assets, each
\* fetched and recorded in this request, pairwise distinct; a count that is
\* not a positive integer is rejected with 400 before any search.
C25_ExactlyCountOrRejected ==
    vPc = "done" =>
        /\ (RequestedCount.t # "i" \/ RequestedCount.v <= 0) =>
              vResponse.status = 400 /\ vEvents = <<>> /\ vSeen = {}
        /\ vResponse.status = 200 =>
              /\ Len(ResponseAssets) = vCount
              /\ \A i, j \in DOMAIN ResponseAssets :
                    i # j => ResponseAssets[i] # ResponseAssets[j]
              /\ \A x \in Range(ResponseAssets) :
                    Did(x, "fetched") /\ Did(x, "written") /\ x \in vDocs

\* C26: the outcome of every candidate of the batches of a request is
\* retained in the aggregate result: a candidate that was processed is
\* listed in the response.
C26_EveryOutcomeRetained ==
    (vPc = "done" /\ vResponse.status = 200) =>
        \A x \in ListedIds : Did(x, "returned") => x \in Range(ResponseAssets)

----------------------------------------------------------------------------
(* Catalog ingestor (getty_ingestor/main.py): POST /process.  It finds     *)
(* the asset, asks the downloads API for a download URI, downloads the     *)
(* bytes and posts them to /run_all of start_pipeline.                     *)

\* an answer of an HTTP endpoint: none (a transport error), or a status
\* with a JSON body
NoAnswer == [kind |-> "transport", status_code |-> 0, body |-> None]
Answer(code, body) == [kind |-> "resp", status_code |-> code, body |-> body]
\* resp.text: a body that is a string is its own text, another body is
\* written out
ResponseText(ans) ==
    IF ans.body.t = "s" THEN ans.body.v ELSE <<"resp.text">>

\* get_getty_headers: the token call behind it, on the cache as it is
get_getty_headers(tokenAns) ==
    get_getty_access_token(getty_token, getty_token_expiry, clock, tokenAns)

\* a GET or POST to the catalog as the helpers of lines 102-222 do it:
\* get_getty_headers() is evaluated inside the try, so a failed token call is
\* caught and raised again as a 500 like a transport error
GettyCall(headers, ans, what) ==
    IF headers.kind # "ok" \/ ans.kind = "transport"
    THEN Http(500, S(<<"Error calling Getty ", what>>))
    ELSE IF ans.status_code # 200
    THEN Http(ans.status_code, S(<<"Getty ", what, " failed">>))
    ELSE Ok(ans.body)

\* lines 102-125
search_images(headers, ans) ==
    LET r == GettyCall(headers, ans, "images search")
    IN IF r.kind = "ok" THEN Ok(Get(r.body, "images", L(<<>>))) ELSE r

\* lines 128-151
search_videos(headers, ans) ==
    LET r == GettyCall(headers, ans, "videos search")
    IN IF r.kind = "ok" THEN Ok(Get(r.body, "videos", L(<<>>))) ELSE r

\* lines 157-188
get_image_download_url(headers, ans) ==
    LET r == GettyCall(headers, ans, "image download")
    IN IF r.kind = "ok"
       THEN IF Truthy(Get(r.body, "uri", None)) THEN Ok(r.body.m["uri"])
            ELSE Http(500, W("Getty image download response missing 'uri'"))
       ELSE r

\* lines 191-222
get_video_download_url(headers, ans) ==
    LET r == GettyCall(headers, ans, "video download")
    IN IF r.kind = "ok"
       THEN IF Truthy(Get(r.body, "uri", None)) THEN Ok(r.body.m["uri"])
            ELSE Http(500, W("Getty video download response missing 'uri'"))
       ELSE r

\* a download that passes empty content on
fetch_bytes_from_url_allow_empty(ans) ==
    IF ans.kind = "transport"
    THEN Http(500, W("Error downloading media from Getty"))
    ELSE IF ans.status_code # 200
    THEN Http(ans.status_code, W("Failed to download media from Getty"))
    ELSE Ok(ans.body)

\* lines 225-250: the body of the answer is the content
fetch_bytes_from_url(ans) ==
    IF ans.kind = "transport"
    THEN Http(500, W("Error downloading media from Getty"))
    ELSE IF ans.status_code # 200
    THEN Http(ans.status_code, W("Failed to download media from Getty"))
    ELSE IF ~Truthy(ans.body) THEN Http(500, W("Downloaded media is empty"))
    ELSE Ok(ans.body)

\* lines 256-301: fetch_id_token, then POST /run_all; a body that is no
\* JSON is None here
call_start_pipeline(token_ok, ans) ==
    IF ~token_ok
    THEN Http(500, W("Failed to obtain ID token for start_pipeline"))
    ELSE IF ans.kind = "transport"
    THEN Http(500, W("Error calling start_pipeline"))
    ELSE IF ans.status_code # 200
    THEN Http(ans.status_code,
              S(<<"start_pipeline returned error: ">> \o ResponseText(ans)))
    ELSE IF ans.body = None
    THEN Http(500, W("start_pipeline returned invalid JSON"))
    ELSE Ok(ans.body)

\* lines 307-313
infer_media_type_from_search_kind(kind) ==
    IF kind = W("video") THEN W("video") ELSE W("image")

\* base64.b64encode(media_bytes).decode("utf-8")
b64encode(content) == S(<<"b64(">> \o content.v \o <<")">>)

\* POST /process bodies
ProcessBodies ==
    {D(a @@ m @@ q) :
        a \in {EmptyMap} \cup {"asset_id" :> x : x \in {W("X123"), S(<<>>)}},
        m \in {EmptyMap} \cup
              {"media_type" :> x : x \in {W("image"), W("video"), W("audio")}},
        q \in {EmptyMap, "query" :> W("mountain")}}

\* answers of the two search endpoints; key is "images" or "videos"
SearchAnswers(key) ==
    {NoAnswer, Answer(503, D(EmptyMap)), Answer(200, D(EmptyMap))}
    \cup {Answer(200, D(key :> L(hits))) :
            hits \in {<<>>, <<D("id" :> W("X123"))>>, <<D(EmptyMap)>>}}

\* answers of the downloads endpoint: no answer, the download refused (403),
\* a server error, an answer with and without "uri"
UriAnswers ==
    {NoAnswer, Answer(403, D(EmptyMap)), Answer(500, D(EmptyMap)),
     Answer(200, D(EmptyMap)), Answer(200, D("uri" :> W("https://delivery/X123")))}

\* answers of the delivery URI: the body is the content
BytesAnswers ==
    {NoAnswer, Answer(404, S(<<>>)), Answer(200, S(<<>>)), Answer(200, W("JPEG"))}

\* answers of start_pipeline /run_all
PipelineAnswers ==
    {NoAnswer, Answer(500, None), Answer(200, None),
     Answer(200, D("status" :> W("complete")))}

\* a request that went out, with the status it was answered with (0: none)
Req(op, ans) ==
    [op |-> op,
     status |-> IF ans.kind = "transport" THEN 0 ELSE ans.status_code]

\* the requests of one catalog call: the token request unless the cache
\* answered, then the call itself if there is a token
GettyRequests(headers, tokenAns, op, ans) ==
    (IF headers.posts = 1 THEN <<Req("token", tokenAns)>> ELSE <<>>)
    \o (IF headers.kind = "ok" THEN <<Req(op, ans)>> ELSE <<>>)

ProcInit ==
    /\ pPc = "idle" /\ pQuery = None /\ pAssetId = None
    /\ pMediaType = None /\ pSearchKind = None
    /\ pAsset = None /\ pDownloadUrl = None
    /\ pMediaBytes = None /\ pPayload = None
    /\ pEvents = <<>> /\ pResponse = None
    /\ RunOff /\ MergeOff /\ NormOff /\ ValOff /\ CredOff /\ InvOff
    /\ RetryOff /\ BatchOff

\* lines 391-398 and the branch of lines 404, 432, 438
ProcessStart ==
    /\ pPc = "idle"
    /\ \E body \in ProcessBodies :
        LET asset_id_in == Get(body, "asset_id", None)
            explicit_media_type == Get(body, "media_type", None)
            query == Get(body, "query", None)
        IN /\ pQuery' = query
           /\ pAssetId' = asset_id_in
           /\ IF Truthy(query) /\ ~Truthy(asset_id_in)
              THEN /\ pPc' = "search_images"
                   /\ UNCHANGED <<pMediaType, pSearchKind, pAsset, pResponse>>
              ELSE IF Truthy(asset_id_in)
              THEN /\ pMediaType' = IF Truthy(explicit_media_type)
                                    THEN explicit_media_type ELSE W("image")
                   /\ pSearchKind' = pMediaType'
                   /\ pAsset' = D("id" :> asset_id_in)
                   /\ pPc' = "download"
                   /\ UNCHANGED pResponse
              ELSE /\ pResponse' = Http(400, W("Provide either asset_id or query"))
                   /\ pPc' = "done"
                   /\ UNCHANGED <<pMediaType, pSearchKind, pAsset>>
    /\ UNCHANGED <<pDownloadUrl, pMediaBytes, pPayload, pEvents, credVars,
                   notProc>>

\* a raised HTTPException ends the request
ProcessRaise(r) ==
    /\ pResponse' = r
    /\ pPc' = "done"

\* lines 407-427: the first hit of a search becomes the asset
TakeFirst(hits, kind) ==
    LET first == hits.v[1]
        found_id == Get(first, "id", None)
    IN /\ pAsset' = first
       /\ pAssetId' = found_id
       /\ pSearchKind' = W(kind)
       /\ IF ~Truthy(found_id)
          THEN /\ ProcessRaise(Http(500, W("Getty search result missing asset id")))
               /\ UNCHANGED pMediaType
          ELSE /\ pMediaType' = infer_media_type_from_search_kind(W(kind))
               /\ pPc' = "download"
               /\ UNCHANGED pResponse

\* lines 404-409
SearchImages ==
    /\ pPc = "search_images"
    /\ \E tokenAns \in TokenAnswers, ans \in SearchAnswers("images") :
        LET headers == get_getty_headers(tokenAns)
            images == search_images(headers, ans)
        IN /\ getty_token' = headers.token
           /\ getty_token_expiry' = headers.expiry
           /\ pEvents' = pEvents
                  \o GettyRequests(headers, tokenAns, "search_images", ans)
           /\ IF images.kind # "ok"
              THEN /\ ProcessRaise(images)
                   /\ UNCHANGED <<pAsset, pAssetId, pSearchKind, pMediaType>>
              ELSE IF Truthy(images.body)
              THEN TakeFirst(images.body, "image")
              ELSE /\ pPc' = "search_videos"
                   /\ UNCHANGED <<pAsset, pAssetId, pSearchKind, pMediaType,
                                  pResponse>>
    /\ UNCHANGED <<pQuery, pDownloadUrl, pMediaBytes, pPayload, clock,
                   tokenLog, notProc>>

\* lines 410-420
SearchVideos ==
    /\ pPc = "search_videos"
    /\ \E tokenAns \in TokenAnswers, ans \in SearchAnswers("videos") :
        LET headers == get_getty_headers(tokenAns)
            videos == search_videos(headers, ans)
        IN /\ getty_token' = headers.token
           /\ getty_token_expiry' = headers.expiry
           /\ pEvents' = pEvents
                  \o GettyRequests(headers, tokenAns, "search_videos", ans)
           /\ IF videos.kind # "ok"
              THEN /\ ProcessRaise(videos)
                   /\ UNCHANGED <<pAsset, pAssetId, pSearchKind, pMediaType>>
              ELSE IF ~Truthy(videos.body)
              THEN /\ ProcessRaise(Http(404, W("No Getty assets found for query")))
                   /\ UNCHANGED <<pAsset, pAssetId, pSearchKind, pMediaType>>
              ELSE TakeFirst(videos.body, "video")
    /\ UNCHANGED <<pQuery, pDownloadUrl, pMediaBytes, pPayload, clock,
                   tokenLog, notProc>>

\* lines 447-450
DownloadUrl ==
    /\ pPc = "download"
    /\ \E tokenAns \in TokenAnswers, ans \in UriAnswers :
        LET headers == get_getty_headers(tokenAns)
            video == pMediaType = W("video")
            download_url == IF video
                            THEN get_video_download_url(headers, ans)
                            ELSE get_image_download_url(headers, ans)
            op == IF video THEN "video_download" ELSE "image_download"
        IN /\ getty_token' = headers.token
           /\ getty_token_expiry' = headers.expiry
           /\ pEvents' = pEvents \o GettyRequests(headers, tokenAns, op, ans)
           /\ IF download_url.kind # "ok"
              THEN /\ ProcessRaise(download_url)
                   /\ UNCHANGED pDownloadUrl
              ELSE /\ pDownloadUrl' = download_url.body
                   /\ pPc' = "fetch"
                   /\ UNCHANGED pResponse
    /\ UNCHANGED <<pQuery, pAssetId, pMediaType, pSearchKind, pAsset,
                   pMediaBytes, pPayload, clock, tokenLog, notProc>>

\* lines 452-466
FetchBytes ==
    /\ pPc = "fetch"
    /\ \E ans \in BytesAnswers :
        LET media_bytes == fetch_bytes_from_url(ans)
        IN /\ pEvents' = Append(pEvents, Req("fetch", ans))
           /\ IF media_bytes.kind # "ok"
              THEN /\ ProcessRaise(media_bytes)
                   /\ UNCHANGED <<pMediaBytes, pPayload>>
              ELSE /\ pMediaBytes' = media_bytes.body
                   /\ pPayload' =
                        D(("asset_id" :> pAssetId) @@ ("source" :> W("getty"))
                          @@ ("media_type" :> pMediaType)
                          @@ ("media_bytes" :> b64encode(media_bytes.body))
                          @@ ("getty_metadata" :>
                                IF Truthy(pAsset) THEN pAsset ELSE D(EmptyMap)))
                   /\ pPc' = "pipeline"
                   /\ UNCHANGED pResponse
    /\ UNCHANGED <<pQuery, pAssetId, pMediaType, pSearchKind, pAsset,
                   pDownloadUrl, credVars, notProc>>

\* lines 468-478
StartPipeline ==
    /\ pPc = "pipeline"
    /\ \E token_ok \in BOOLEAN, ans \in PipelineAnswers :
        LET pipeline_result == call_start_pipeline(token_ok, ans)
        IN /\ pEvents' = IF token_ok THEN Append(pEvents, Req("run_all", ans))
                         ELSE pEvents
           /\ pPc' = "done"
           /\ pResponse' =
                IF pipeline_result.kind # "ok" THEN pipeline_result
                ELSE Ok(D(("asset_id" :> pAssetId) @@ ("query" :> pQuery)
                          @@ ("media_type" :> pMediaType)
                          @@ ("search_kind" :> pSearchKind)
                          @@ ("status" :> W("processed"))
                          @@ ("pipeline_result" :> pipeline_result.body)))
    /\ UNCHANGED <<pQuery, pAssetId, pMediaType, pSearchKind, pAsset,
                   pDownloadUrl, pMediaBytes, pPayload, credVars, notProc>>

ProcNext ==
    \/ ProcessStart
    \/ SearchImages
    \/ SearchVideos
    \/ DownloadUrl
    \/ FetchBytes
    \/ StartPipeline

SpecProcess == ProcInit /\ [][ProcNext]_vars

\* the downloads endpoint refused the asset this request asked for
DownloadRejected ==
    \E i \in DOMAIN pEvents :
        /\ pEvents[i].op \in {"image_download", "video_download"}
        /\ pEvents[i].status = 403

\* C19: when the downloads endpoint refuses the asset, the request goes on
\* with a (preview) URL in place of the download URI and the caller does not
\* see the refusal
C19_RejectionFallsBackToPreview ==
    DownloadRejected =>
        /\ pDownloadUrl # None
        /\ ~(pResponse.kind = "http" /\ pResponse.status = 403)

\* the words of a diagnostic
Words(detail) ==
    IF detail.t = "s" THEN {detail.v[k] : k \in DOMAIN detail.v} ELSE {}

\* C20: when the downloads endpoint refuses the asset and nothing else can
\* be used, the request fails with a diagnostic naming the stage "Acquire"
\* and no request to /run_all is made
C20_FailsAtAcquire ==
    (DownloadRejected /\ pPc = "done") =>
        /\ pResponse.kind = "http"
        /\ "Acquire" \in Words(pResponse.detail)
        /\ \A i \in DOMAIN pEvents : pEvents[i].op # "run_all"

----------------------------------------------------------------------------
(* Authenticated Invoker, call by call: call_service of start_pipeline and *)
(* call_start_pipeline of getty_ingestor.  A call checks the service URL,  *)
(* fetches an identity token for it, posts once and returns or raises.     *)

\* the calls a process makes one after the other
MaxInvocations == 2

\* what a call can be made with: the endpoint and the service URL of its
\* environment variable, which start_pipeline may lack
InvokeTargets ==
    {[fn |-> "call_service", url |-> None, endpoint |-> x] : x \in Stages}
    \cup {[fn |-> "call_service", url |-> S(<<"https://", x>>),
           endpoint |-> x] : x \in Stages}
    \cup {[fn |-> "call_start_pipeline",
           url |-> S(<<"https://", "start_pipeline">>),
           endpoint |-> "run_all"]}

\* what a stage can answer to the POST
StageReplies ==
    {NoAnswer, Answer(400, W("bad request")), Answer(404, W("not found")),
     Answer(500, W("stage failed")), Answer(503, W("unavailable")),
     Answer(200, None), Answer(200, D("status" :> W("ok")))}

\* a call_service that hides the stage's error behind one of its own
call_service_reply_flat(url, endpoint, token_ok, ans) ==
    IF ~Truthy(url)
    THEN Http(500, S(<<"Missing service URL for ", endpoint>>))
    ELSE IF ~token_ok \/ ans.kind = "transport" THEN Exc
    ELSE IF ans.status_code # 200 THEN Http(500, W("stage call failed"))
    ELSE IF ans.body = None THEN Exc
    ELSE Ok(ans.body)

\* start_pipeline lines 60-76, on the reply of requests.post: a raise of
\* fetch_id_token, of requests.post or of resp.json() is caught nowhere
call_service_reply(url, endpoint, token_ok, ans) ==
    IF ~Truthy(url)
    THEN Http(500, S(<<"Missing service URL for ", endpoint>>))
    ELSE IF ~token_ok \/ ans.kind = "transport" THEN Exc
    ELSE IF ans.status_code # 200
    THEN Http(ans.status_code, S(ResponseText(ans)))
    ELSE IF ans.body = None THEN Exc
    ELSE Ok(ans.body)

\* what the running call returns or raises
InvokerResult(token_ok, ans) ==
    IF iFn = "call_service"
    THEN call_service_reply(iUrl, iEndpoint, token_ok, ans)
    ELSE call_start_pipeline(token_ok, ans)

InvInit ==
    /\ iPc = "idle" /\ iFn = "none" /\ iUrl = None /\ iEndpoint = "none"
    /\ iToken = None /\ iRequests = <<>> /\ iOutcome = None
    /\ iHistory = <<>>
    /\ RunOff /\ MergeOff /\ NormOff /\ CredOff /\ ValOff /\ ProcOff
    /\ RetryOff /\ BatchOff

\* start_pipeline lines 60-62, getty_ingestor lines 260-265
InvokeStart ==
    /\ iPc = "idle"
    /\ Len(iHistory) < MaxInvocations
    /\ \E target \in InvokeTargets :
         /\ iFn' = target.fn
         /\ iUrl' = target.url
         /\ iEndpoint' = target.endpoint
         /\ IF ~Truthy(target.url)
            THEN /\ iOutcome' = call_service_reply(target.url,
                                     target.endpoint, FALSE, NoAnswer)
                 /\ iPc' = "done"
            ELSE /\ iPc' = "token"
                 /\ UNCHANGED iOutcome
    /\ UNCHANGED <<iToken, iRequests, iHistory, notInv>>

\* a call that posts although it got no token
FetchIdToken_post_anyway ==
    /\ iPc = "token"
    /\ \E token_ok \in BOOLEAN :
         /\ iToken' = IF token_ok
                      THEN [aud |-> iUrl, call |-> Len(iHistory) + 1]
                      ELSE None
         /\ iPc' = "post"
         /\ UNCHANGED iOutcome
    /\ UNCHANGED <<iFn, iUrl, iEndpoint, iRequests, iHistory, notInv>>

\* start_pipeline lines 64-65, getty_ingestor lines 267-274:
\* fetch_id_token(auth_req, url)
FetchIdToken ==
    /\ iPc = "token"
    /\ \E token_ok \in BOOLEAN :
         IF token_ok
         THEN /\ iToken' = [aud |-> iUrl, call |-> Len(iHistory) + 1]
              /\ iPc' = "post"
              /\ UNCHANGED iOutcome
         ELSE /\ iOutcome' = InvokerResult(FALSE, NoAnswer)
              /\ iPc' = "done"
              /\ UNCHANGED iToken
    /\ UNCHANGED <<iFn, iUrl, iEndpoint, iRequests, iHistory, notInv>>

\* start_pipeline lines 67-76, getty_ingestor lines 276-301: one POST, then
\* the call returns or raises
PostToStage ==
    /\ iPc = "post"
    /\ \E ans \in StageReplies :
         /\ iRequests' = Append(iRequests,
                                [to |-> iUrl, endpoint |-> iEndpoint,
                                 token |-> iToken, answer |-> ans])
         /\ iOutcome' = InvokerResult(TRUE, ans)
         /\ iPc' = "done"
    /\ UNCHANGED <<iFn, iUrl, iEndpoint, iToken, iHistory, notInv>>

\* the caller has the result; the call is over
InvokeReturn ==
    /\ iPc = "done"
    /\ iHistory' = Append(iHistory,
                          [fn |-> iFn, url |-> iUrl, endpoint |-> iEndpoint,
                           at |-> IF iRequests # <<>> THEN "post"
                                  ELSE IF Truthy(iUrl) THEN "token"
                                  ELSE "start",
                           requests |-> iRequests, outcome |-> iOutcome])
    /\ iPc' = "idle" /\ iFn' = "none" /\ iUrl' = None /\ iEndpoint' = "none"
    /\ iToken' = None /\ iRequests' = <<>> /\ iOutcome' = None
    /\ UNCHANGED notInv

InvNext ==
    \/ InvokeStart
    \/ FetchIdToken
    \/ PostToStage
    \/ InvokeReturn

SpecInvoke == InvInit /\ [][InvNext]_vars

\* a failure the invoker is to retry: no answer, or a transient status
Transient(ans) == ans.kind = "transport" \/ ans.status_code = 503
\* an error answer that is not transient: a 4xx of the stage
NonTransient(ans) == ans.kind = "resp" /\ ans.status_code \in {400, 404}
\* what the caller of run_all or /process is answered when the call raises
SeenByCaller(call) == ErrorResponse(call.outcome)

\* C27: a stage call that fails at transport level or with a transient
\* status is retried: the call does not end on that failure after a single
\* request (and the requests of a call stay within the attempt bound).
C27_TransientRetried ==
    \A c \in DOMAIN iHistory :
        (\E k \in DOMAIN iHistory[c].requests :
            Transient(iHistory[c].requests[k].answer))
        => Len(iHistory[c].requests) > 1

\* C28: a non-transient error answer of a stage makes the call fail at
\* once: one request was sent, and the error carries the status code and
\* the body of the stage.
C28_NonTransientFailsAtOnce ==
    \A c \in DOMAIN iHistory :
        \A k \in DOMAIN iHistory[c].requests :
            LET ans == iHistory[c].requests[k].answer
                r == iHistory[c].outcome
            IN NonTransient(ans) =>
                 /\ Len(iHistory[c].requests) = 1
                 /\ r.kind = "http"
                 /\ r.status = ans.status_code
                 /\ Range(ResponseText(ans)) \subseteq Words(r.detail)

\* a call of call_service and one of call_start_pipeline have met a 4xx
C28_Witness ==
    \E c, d \in DOMAIN iHistory :
        /\ iHistory[c].fn = "call_service"
        /\ iHistory[d].fn = "call_start_pipeline"
        /\ iHistory[c].at = "post" /\ iHistory[d].at = "post"
        /\ NonTransient(iHistory[c].requests[1].answer)
        /\ NonTransient(iHistory[d].requests[1].answer)

\* C29: a call that failed to get its identity token is told apart from a
\* call whose stage failed: the two never give the caller the same error.
C29_TokenFailureDistinct ==
    \A c, d \in DOMAIN iHistory :
        (/\ iHistory[c].fn = iHistory[d].fn
         /\ iHistory[c].at = "token"
         /\ iHistory[d].at = "post" /\ iHistory[d].outcome.kind # "ok")
        => SeenByCaller(iHistory[c]) # SeenByCaller(iHistory[d])

\* C30: every request to a stage carries an identity token fetched in the
\* same call for the address it is sent to, and a call that got no token or
\* has no service URL sends no request.
C30_RequestsCarryFreshToken ==
    /\ iPc \in {"idle", "token"} => iRequests = <<>>
    /\ iRequests # <<>> => iToken # None
    /\ \A c \in DOMAIN iHistory :
         /\ iHistory[c].at # "post" => iHistory[c].requests = <<>>
         /\ \A k \in DOMAIN iHistory[c].requests :
              LET sentReq == iHistory[c].requests[k]
              IN /\ sentReq.token # None
                 /\ sentReq.token.aud = sentReq.to
                 /\ sentReq.to = iHistory[c].url
                 /\ sentReq.token.call = c

\* one call has posted with its token, one got no token
C30_Witness ==
    \E c, d \in DOMAIN iHistory :
        /\ iHistory[c].at = "post" /\ Len(iHistory[c].requests) = 1
        /\ iHistory[d].at = "token" /\ iHistory[d].requests = <<>>

----------------------------------------------------------------------------
(* The retry loops of the catalog enricher, call by call:                  *)
(* fetch_asset_metadata and download_to_gcs_with_retries.  Every request   *)
(* a call sends is kept with its answer in rRequests.                      *)

RetryFns == {"fetch_asset_metadata", "download_to_gcs_with_retries"}

\* the values of the parameter `attempts`, its default among them
AttemptsInputs == {0, 1, 2, MAX_DOWNLOAD_RETRIES}

\* what the asset endpoint can answer to one request: the answers of
\* MetaAnswers, and a 200 whose body is no JSON object
AssetAnswers ==
    MetaAnswers
    \cup {[kind |-> "resp", status_code |-> 200, body |-> W("<html>")]}

\* a loop body that retries a 404 like any other status
fetch_attempt_retry_404(ans) ==
    IF ans.kind = "transport" \/ ans.status_code # 200
    THEN [do |-> "continue", r |-> None]
    ELSE IF ~IsDict(ans.body) THEN [do |-> "raise", r |-> Exc]
    ELSE IF ~Truthy(Get(ans.body, "asset", None))
    THEN [do |-> "continue", r |-> None]
    ELSE [do |-> "return", r |-> Ok(ans.body.m["asset"])]

\* lines 137-166: one pass of the loop body of fetch_asset_metadata.
\* resp.json().get("asset") stands outside the try, so what it raises
\* leaves the call
fetch_attempt(ans) ==
    IF ans.kind = "transport" THEN [do |-> "continue", r |-> None]
    ELSE IF ans.status_code = 404
    THEN [do |-> "raise",
          r |-> Http(404, W("Asset not found or inaccessible"))]
    ELSE IF ans.status_code # 200 THEN [do |-> "continue", r |-> None]
    ELSE IF ~IsDict(ans.body) THEN [do |-> "raise", r |-> Exc]
    ELSE IF ~Truthy(Get(ans.body, "asset", None))
    THEN [do |-> "continue", r |-> None]
    ELSE [do |-> "return", r |-> Ok(ans.body.m["asset"])]

\* what a download request can meet: no answer, a refusal, or a 200 whose
\* body is streamed to GCS: the upload completes, breaks with a
\* requests.RequestException, or raises an error of the storage client
DownloadReplies ==
    {[kind |-> "transport", status_code |-> 0, upload |-> "none"],
     [kind |-> "resp", status_code |-> 403, upload |-> "none"],
     [kind |-> "resp", status_code |-> 200, upload |-> "done"],
     [kind |-> "resp", status_code |-> 200, upload |-> "stream_broken"],
     [kind |-> "resp", status_code |-> 200, upload |-> "storage_error"]}

\* f"gs://{bucket_name}/raw/{asset_id}.mp4"
RawPath == S(<<"gs://", "assets", "/", "raw", "/", "a1", ".", "mp4">>)

\* a loop body that returns the path of every 200 answer
download_attempt_trusting(ans) ==
    IF ans.kind = "transport"
    THEN [do |-> "continue", r |-> None, err |-> W("connection error"),
          uploaded |-> FALSE]
    ELSE IF ans.status_code # 200
    THEN [do |-> "continue", r |-> None,
          err |-> S(<<"Download HTTP ", "403">>), uploaded |-> FALSE]
    ELSE [do |-> "return", r |-> Ok(RawPath), err |-> None,
          uploaded |-> ans.upload = "done"]

\* lines 183-196: one pass of the loop body of
\* download_to_gcs_with_retries; `err` is the new last_err
download_attempt(ans) ==
    IF ans.kind = "transport"
    THEN [do |-> "continue", r |-> None, err |-> W("connection error"),
          uploaded |-> FALSE]
    ELSE IF ans.status_code # 200
    THEN [do |-> "continue", r |-> None,
          err |-> S(<<"Download HTTP ", "403">>), uploaded |-> FALSE]
    ELSE IF ans.upload = "stream_broken"
    THEN [do |-> "continue", r |-> None, err |-> W("stream broken"),
          uploaded |-> FALSE]
    ELSE IF ans.upload = "storage_error"
    THEN [do |-> "raise", r |-> Exc, err |-> None, uploaded |-> FALSE]
    ELSE [do |-> "return", r |-> Ok(RawPath), err |-> None,
          uploaded |-> TRUE]

\* line 168: raised when the loop of fetch_asset_metadata runs out
MetadataGaveUp == Http(502, W("Failed to fetch metadata after retries"))

\* line 198: raised when the loop of download_to_gcs_with_retries runs out
DownloadGaveUp(last_err) ==
    Http(502, S(<<"Download failed after retries: ">>
                \o (IF last_err = None THEN <<"None">> ELSE last_err.v)))

RetryInit ==
    /\ rPc = "idle" /\ rFn = "none" /\ rLimit = 0 /\ rAttempt = 0
    /\ rRequests = <<>> /\ rBlob = FALSE /\ rLastErr = None
    /\ rOutcome = None
    /\ RunOff /\ MergeOff /\ NormOff /\ CredOff /\ ValOff /\ ProcOff
    /\ InvOff /\ BatchOff

\* the call is made.  fetch_asset_metadata asks for a token first (line
\* 131); download_to_gcs_with_retries enters its loop, or leaves it at
\* once when `attempts` is 0
RetryStart ==
    /\ rPc = "idle"
    /\ \E fn \in RetryFns :
         /\ rFn' = fn
         /\ IF fn = "fetch_asset_metadata"
            THEN /\ rLimit' = MetadataAttempts
                 /\ rPc' = "token"
                 /\ UNCHANGED rOutcome
            ELSE \E n \in AttemptsInputs :
                   /\ rLimit' = n
                   /\ rPc' = IF n > 0 THEN "loop" ELSE "done"
                   /\ rOutcome' = IF n > 0 THEN rOutcome
                                  ELSE DownloadGaveUp(None)
    /\ UNCHANGED <<rAttempt, rRequests, rBlob, rLastErr, notRetry>>

\* line 131: get_access_token(), which may raise
RetryToken ==
    /\ rPc = "token"
    /\ \E ans \in TokenAnswers :
         LET r == get_access_token(ans)
         IN IF r.kind = "ok"
            THEN /\ rPc' = "loop"
                 /\ UNCHANGED rOutcome
            ELSE /\ rPc' = "done"
                 /\ rOutcome' = r
    /\ UNCHANGED <<rFn, rLimit, rAttempt, rRequests, rBlob, rLastErr,
                   notRetry>>

\* lines 136-168: one request of fetch_asset_metadata and what follows it
FetchAttempt ==
    /\ rPc = "loop" /\ rFn = "fetch_asset_metadata"
    /\ \E ans \in AssetAnswers :
         LET a == fetch_attempt(ans)
         IN /\ rRequests' = Append(rRequests, ans)
            /\ IF a.do # "continue"
               THEN /\ rPc' = "done"
                    /\ rOutcome' = a.r
                    /\ UNCHANGED rAttempt
               ELSE IF rAttempt + 1 < rLimit
               THEN /\ rAttempt' = rAttempt + 1
                    /\ UNCHANGED <<rPc, rOutcome>>
               ELSE /\ rPc' = "done"
                    /\ rOutcome' = MetadataGaveUp
                    /\ UNCHANGED rAttempt
    /\ UNCHANGED <<rFn, rLimit, rBlob, rLastErr, notRetry>>

\* lines 182-198: one request of download_to_gcs_with_retries and what
\* follows it
DownloadAttempt ==
    /\ rPc = "loop" /\ rFn = "download_to_gcs_with_retries"
    /\ \E ans \in DownloadReplies :
         LET a == download_attempt(ans)
         IN /\ rRequests' = Append(rRequests, ans)
            /\ rBlob' = (rBlob \/ a.uploaded)
            /\ IF a.do # "continue"
               THEN /\ rPc' = "done"
                    /\ rOutcome' = a.r
                    /\ UNCHANGED <<rAttempt, rLastErr>>
               ELSE IF rAttempt + 1 < rLimit
               THEN /\ rAttempt' = rAttempt + 1
                    /\ rLastErr' = a.err
                    /\ UNCHANGED <<rPc, rOutcome>>
               ELSE /\ rPc' = "done"
                    /\ rLastErr' = a.err
                    /\ rOutcome' = DownloadGaveUp(a.err)
                    /\ UNCHANGED rAttempt
    /\ UNCHANGED <<rFn, rLimit, notRetry>>

RetryNext ==
    \/ RetryStart
    \/ RetryToken
    \/ FetchAttempt
    \/ DownloadAttempt

SpecRetry == RetryInit /\ [][RetryNext]_vars

\* every request has a timeout and every sleep ends, so a call that can
\* take a step takes it
SpecRetryFair == SpecRetry /\ WF_vars(RetryNext)

----------------------------------------------------------------------------
(* Claims about the retry loops *)

\* an answer after which fetch_asset_metadata tries again: a transport
\* error, a status other than 200 and 404, or a 200 with no asset data
MetaUnsuccessful(ans) ==
    \/ ans.kind = "transport"
    \/ ans.status_code \notin {200, 404}
    \/ (ans.status_code = 200 /\ IsDict(ans.body)
        /\ ~Truthy(Get(ans.body, "asset", None)))

\* a 200 with asset data
MetaFound(ans) ==
    /\ ans.kind = "resp" /\ ans.status_code = 200 /\ IsDict(ans.body)
    /\ Truthy(Get(ans.body, "asset", None))

\* a call of fetch_asset_metadata is over and ended as it must: at most
\* three requests sent, every request but the last one unsuccessful, and
\* the outcome decided by the last answer
MetadataCallEnded ==
    /\ rPc = "done" /\ rFn = "fetch_asset_metadata"
    /\ Len(rRequests) <= MetadataAttempts
    /\ \A k \in 1..(Len(rRequests) - 1) : MetaUnsuccessful(rRequests[k])
    /\ rRequests = <<>> => rOutcome.kind # "ok"
    /\ rRequests # <<>> =>
         LET last == rRequests[Len(rRequests)]
         IN /\ MetaFound(last) => rOutcome = Ok(last.body.m["asset"])
            /\ (last.kind = "resp" /\ last.status_code = 404) =>
                 (rOutcome.kind = "http" /\ rOutcome.status = 404)
            /\ MetaUnsuccessful(last) =>
                 /\ Len(rRequests) = MetadataAttempts
                 /\ rOutcome.kind = "http" /\ rOutcome.status = 502
            /\ rOutcome.kind = "ok" => MetaFound(last)

\* C33: every call of fetch_asset_metadata ends, having sent at most 3
\* requests: it returns the asset of the first answer that is a 200 with
\* asset data, fails with 404 on the first 404 answer without a further
\* request, goes on to the next request after a transport error, another
\* status or an empty asset, and fails with 502 when the third request was
\* unsuccessful too.
C33_MetadataCallEnds ==
    (rFn = "fetch_asset_metadata" /\ rPc # "done") ~> MetadataCallEnded

\* three unsuccessful requests, then 502
C33_Witness ==
    /\ rPc = "done" /\ rFn = "fetch_asset_metadata"
    /\ Len(rRequests) = 3
    /\ rRequests[1].kind = "transport"
    /\ rRequests[2].status_code = 500
    /\ rRequests[3].status_code = 200 /\ ~MetaFound(rRequests[3])
    /\ rOutcome.status = 502

\* an answer after which download_to_gcs_with_retries tries again
DownloadFailed(ans) ==
    \/ ans.kind = "transport"
    \/ ans.status_code # 200
    \/ ans.upload = "stream_broken"

\* the error text kept for an answer that failed
ErrorOf(ans) ==
    IF ans.kind = "transport" THEN <<"connection error">>
    ELSE IF ans.status_code # 200 THEN <<"Download HTTP ", "403">>
    ELSE <<"stream broken">>

\* a call of download_to_gcs_with_retries is over and ended as it must
DownloadCallEnded ==
    /\ rPc = "done" /\ rFn = "download_to_gcs_with_retries"
    /\ Len(rRequests) <= rLimit
    /\ \A k \in 1..(Len(rRequests) - 1) : DownloadFailed(rRequests[k])
    /\ rOutcome.kind = "ok" =>
         /\ rRequests # <<>>
         /\ rRequests[Len(rRequests)].status_code = 200
         /\ rRequests[Len(rRequests)].upload = "done"
         /\ rBlob
         /\ rOutcome.body = RawPath
    /\ (\A k \in 1..Len(rRequests) : DownloadFailed(rRequests[k])) =>
         /\ Len(rRequests) = rLimit
         /\ rOutcome.kind = "http" /\ rOutcome.status = 502
         /\ rRequests # <<>> =>
              rOutcome.detail =
                  S(<<"Download failed after retries: ">>
                    \o ErrorOf(rRequests[Len(rRequests)]))
    /\ ~rBlob => rOutcome.kind # "ok"

\* C34: every call of download_to_gcs_with_retries ends, having sent at
\* most `attempts` download requests: it returns the gs:// path only when
\* its last request was answered 200 and the upload to GCS completed, it
\* fails with 502 naming the error of the last request when every request
\* failed, and it returns no path while no upload has completed.
C34_DownloadCallEnds ==
    (rFn = "download_to_gcs_with_retries" /\ rPc # "done")
        ~> DownloadCallEnded

\* four failed requests, then a 200 whose upload completes
C34_Witness ==
    /\ rPc = "done" /\ rFn = "download_to_gcs_with_retries"
    /\ rLimit = MAX_DOWNLOAD_RETRIES
    /\ Len(rRequests) = MAX_DOWNLOAD_RETRIES
    /\ rRequests[1].kind = "transport"
    /\ rRequests[2].status_code = 403
    /\ rRequests[3].upload = "stream_broken"
    /\ rRequests[5].upload = "done"
    /\ rOutcome = Ok(RawPath) /\ rBlob

----------------------------------------------------------------------------
(* The answers of the transcode stage *)

AudioOutcomes ==
    {W("extracted"), W("no_audio_present"), W("audio_extraction_failed"),
     W("skipped_invalid_input")}

\* the 200 answers of /transcode received so far
TranscodeAnswers ==
    {answers[i].body : i \in {k \in 1..Len(answers) :
                                 answers[k].stage = "transcode"}}

----------------------------------------------------------------------------
(* Batch runner (src/batch-runner/main.py, and its variant                 *)
(* src/cloud-run/batch-runner/main.py that posts with curl): main, run     *)
(* after run.  A name is a sequence of tokens like every str of the model; *)
(* the processed file is the set of its lines.                             *)

\* the runs of one behaviour
MaxRuns == 2

\* the values of COUNT a run can be started with
CountValues == {-1, 0, 1, 2}

\* the objects under FOLDER
BucketBlobs ==
    {<<"newsflare", "/", "a", ".", "mp4">>,
     <<"newsflare", "/", "b", ".", "mp4">>,
     <<"newsflare", "/", "c", " ", "d", ".", "mp4">>,
     <<"newsflare", "/", "notes", ".", "txt">>}

BatchVariants == {"requests", "curl"}

\* os.path.exists(PROCESSED_FILE) is false
NoFile == [exists |-> FALSE, lines |-> {}]
FileOf(lines) == [exists |-> TRUE, lines |-> lines]

Whitespace == {" ", "\n"}

\* str.strip()
RECURSIVE lstrip(_)
lstrip(q) ==
    IF q # <<>> /\ Head(q) \in Whitespace THEN lstrip(Tail(q)) ELSE q

RECURSIVE rstrip(_)
rstrip(q) ==
    IF q # <<>> /\ q[Len(q)] \in Whitespace
    THEN rstrip(SubSeq(q, 1, Len(q) - 1)) ELSE q

strip(q) == rstrip(lstrip(q))

\* a loader that takes the lines as they are, newline included
load_processed_raw_lines(file) ==
    IF ~file.exists THEN {} ELSE file.lines

\* lines 18-22: load_processed
load_processed(file) ==
    IF ~file.exists THEN {} ELSE {strip(line) : line \in file.lines}

\* lines 25-29: save_processed writes one line per item of `processed`
save_processed(processed) ==
    FileOf({item \o <<"\n">> : item \in processed})

\* lines 32-35: list_gcs_files
list_gcs_files(blobs) ==
    {b \in blobs : Len(b) >= 2 /\ SubSeq(b, Len(b) - 1, Len(b)) = <<".", "mp4">>}

\* line 86: random.sample(remaining, k): every sequence of k distinct
\* members of `remaining`
Samples(remaining, k) ==
    {q \in [1..k -> remaining] :
        \A i, j \in 1..k : i # j => q[i] # q[j]}

Min(a, b) == IF a < b THEN a ELSE b

BatchInit ==
    /\ bPc = "idle"
    /\ bVariant \in BatchVariants
    /\ bBucket = BucketBlobs
    /\ bFile = NoFile
    /\ bCount = 0 /\ bProcessed = {} /\ bToProcess = <<>> /\ bIdx = 0
    /\ bSubmitted = <<>> /\ bRuns = <<>>
    /\ RunOff /\ MergeOff /\ NormOff /\ CredOff /\ ValOff /\ ProcOff
    /\ InvOff /\ RetryOff

\* the process ends: the run is kept in bRuns and the locals are gone
EndRun(count, submitted, file_after, outcome) ==
    /\ bRuns' = Append(bRuns, [count |-> count, before |-> bFile,
                               submitted |-> submitted,
                               after |-> file_after, outcome |-> outcome])
    /\ bFile' = file_after
    /\ bPc' = "idle"
    /\ bCount' = 0 /\ bProcessed' = {} /\ bToProcess' = <<>> /\ bIdx' = 0
    /\ bSubmitted' = <<>>

\* lines 77-86: main up to the sample.  random.sample raises ValueError
\* for a negative k
BatchStart ==
    /\ bPc = "idle" /\ Len(bRuns) < MaxRuns
    /\ \E c \in CountValues :
         LET processed == load_processed(bFile)
             all_files == list_gcs_files(bBucket)
             remaining == all_files \ processed
             k == Min(c, Cardinality(remaining))
         IN IF remaining = {}
            THEN EndRun(c, <<>>, bFile, "completed")
            ELSE IF k < 0
            THEN EndRun(c, <<>>, bFile, "crashed")
            ELSE \E q \in Samples(remaining, k) :
                   /\ bCount' = c
                   /\ bProcessed' = processed
                   /\ bToProcess' = q
                   /\ bIdx' = 0
                   /\ bPc' = IF q = <<>> THEN "save" ELSE "loop"
                   /\ UNCHANGED <<bFile, bSubmitted, bRuns>>
    /\ UNCHANGED <<bVariant, bBucket, notBatch>>

\* lines 88-90 and run_pipeline: one pass of the loop.  The variant with
\* requests fetches an identity token outside its try (line 52), so a
\* failing fetch ends the process; what the POST meets is caught or
\* printed.  The variant with curl never raises.
BatchSubmit ==
    /\ bPc = "loop"
    /\ \E token_ok \in BOOLEAN, posted \in {"answered_200", "failed"} :
         LET file_name == bToProcess[bIdx + 1]
         IN IF bVariant = "requests" /\ ~token_ok
            THEN /\ posted = "failed"
                 /\ EndRun(bCount, bSubmitted, bFile, "crashed")
            ELSE /\ token_ok
                 /\ bSubmitted' = Append(bSubmitted,
                                         [file_name |-> file_name,
                                          posted |-> posted])
                 /\ bProcessed' = bProcessed \cup {file_name}
                 /\ bIdx' = bIdx + 1
                 /\ bPc' = IF bIdx + 1 = Len(bToProcess) THEN "save"
                           ELSE "loop"
                 /\ UNCHANGED <<bFile, bCount, bToProcess, bRuns>>
    /\ UNCHANGED <<bVariant, bBucket, notBatch>>

\* line 92: save_processed(processed); /data may not be writable, and then
\* open raises before the file is touched
BatchSave ==
    /\ bPc = "save"
    /\ \E writable \in BOOLEAN :
         IF writable
         THEN EndRun(bCount, bSubmitted,
                     save_processed(bProcessed), "completed")
         ELSE EndRun(bCount, bSubmitted, bFile, "crashed")
    /\ UNCHANGED <<bVariant, bBucket, notBatch>>

BatchNext ==
    \/ BatchStart
    \/ BatchSubmit
    \/ BatchSave

SpecBatch == BatchInit /\ [][BatchNext]_vars

----------------------------------------------------------------------------
(* Claims about the batch runner *)

Names(submitted) == {submitted[k].file_name : k \in 1..Len(submitted)}

\* C36: across the runs of the batch runner no file recorded in the
\* processed file is submitted to the pipeline again; the files a run
\* submits are distinct and were unprocessed when it started; a completed
\* run has submitted at most COUNT files (none when COUNT is below 1), and
\* after it the processed file
\* holds what it held before and every file the run submitted, whatever
\* the pipeline answered.
C36_BatchRuns ==
    /\ \A k \in 1..Len(bSubmitted) :
         bSubmitted[k].file_name \notin load_processed(bFile)
    /\ \A r \in 1..Len(bRuns) :
         LET run == bRuns[r]
             recorded == load_processed(run.before)
         IN /\ Names(run.submitted) \cap recorded = {}
            /\ Cardinality(Names(run.submitted)) = Len(run.submitted)
            /\ \A e \in 1..(r - 1) :
                 Names(run.submitted) \cap load_processed(bRuns[e].after) = {}
            /\ r > 1 => run.before = bRuns[r - 1].after
            /\ run.outcome = "completed" =>
                 /\ Len(run.submitted) <= run.count
                      \/ run.submitted = <<>>
                 /\ load_processed(run.after)
                      = recorded \cup Names(run.submitted)

\* two completed runs: the second submits what the first left, after a
\* pipeline call of the first failed
C36_Witness ==
    /\ Len(bRuns) >= 2
    /\ bRuns[1].outcome = "completed" /\ bRuns[1].count = 2
    /\ Len(bRuns[1].submitted) = 2
    /\ bRuns[1].submitted[1].posted = "failed"
    /\ bRuns[2].outcome = "completed"
    /\ Len(bRuns[2].submitted) = 1
    /\ load_processed(bRuns[2].after) = list_gcs_files(BucketBlobs)

----------------------------------------------------------------------------
(* The order of the outbound requests of /process *)

\* the positions of the requests of kind `op` in pEvents
Ops(op) == {i \in DOMAIN pEvents : pEvents[i].op = op}

DownloadOps == Ops("image_download") \cup Ops("video_download")

\* C37: while it serves one request, /process posts to start_pipeline at
\* most once, and calls it only after the downloads endpoint gave a URI and
\* the fetch of that URI gave non-empty bytes; images are searched before
\* videos, and videos only when the image search returned nothing; a
\* request with neither asset_id nor query, and a query without results,
\* fail without any download or pipeline request.
C37_ProcessOrder ==
    /\ Cardinality(Ops("run_all")) <= 1
    /\ (pPc = "pipeline" \/ Ops("run_all") # {}) =>
         /\ Truthy(pDownloadUrl) /\ Truthy(pMediaBytes)
         /\ pPayload.m["media_bytes"] = b64encode(pMediaBytes)
    /\ \A i \in Ops("run_all") :
         \E j \in DownloadOps, k \in Ops("fetch") :
            /\ j < k /\ k < i
            /\ pEvents[j].status = 200 /\ pEvents[k].status = 200
    /\ Cardinality(Ops("search_images")) <= 1
    /\ Cardinality(Ops("search_videos")) <= 1
    /\ \A v \in Ops("search_videos") :
         /\ \E i \in Ops("search_images") : i < v /\ pEvents[i].status = 200
         /\ pSearchKind # W("image")
    /\ pPc = "search_videos" => Ops("search_images") # {}
    /\ (pPc # "idle" /\ ~Truthy(pQuery) /\ ~Truthy(pAssetId)) =>
         /\ pPc = "done"
         /\ pResponse.kind = "http" /\ pResponse.status = 400
         /\ pEvents = <<>>
    /\ (pPc = "done" /\ pResponse.kind = "http" /\ pResponse.status = 404
        /\ pResponse.detail = W("No Getty assets found for query")) =>
         /\ Ops("search_images") # {} /\ Ops("search_videos") # {}
         /\ DownloadOps = {} /\ Ops("fetch") = {} /\ Ops("run_all") = {}

\* a query whose image search found nothing and whose video search found
\* the asset that was then downloaded and posted to start_pipeline
C37_Witness ==
    /\ pPc = "done"
    /\ Ops("search_images") # {} /\ Ops("search_videos") # {}
    /\ Ops("video_download") # {} /\ Ops("fetch") # {}
    /\ Cardinality(Ops("run_all")) = 1
    /\ pResponse.kind = "ok"

----------------------------------------------------------------------------
(* The credential cache across failed acquisitions *)

\* the cache as the call i of the log left it
CacheAfter(i) ==
    IF i < Len(tokenLog)
    THEN [token |-> tokenLog[i + 1].held,
          expiry |-> tokenLog[i + 1].heldExpiry]
    ELSE [token |-> getty_token, expiry |-> getty_token_expiry]

----------------------------------------------------------------------------
(* The outcomes of the Input Normalizer *)

\* C39: for every request build_initial_payload ends in one of two ways:
\* it returns a descriptor containing asset_id, source and asset_type, or
\* it fails with HTTP 400; it fails with no other error.
C39_NormaliserTotal ==
    nPc = "built" =>
        \/ /\ nOut.kind = "ok"
           /\ Has(nOut.body, "asset_id")
           /\ Has(nOut.body, "source")
           /\ Has(nOut.body, "asset_type")
        \/ /\ nOut.kind = "http"
           /\ nOut.status = 400

\* what holds of every request but those that carry media_bytes with
\* source "getty" and no media_type: there data["media_type"] raises
\* KeyError
C39_TotalButGettyBytes ==
    nPc = "built" =>
        IF /\ ~Has(nReq, "media_url") /\ Has(nReq, "media_bytes")
           /\ Get(nReq, "source", None) = W("getty")
           /\ ~Has(nReq, "media_type")
        THEN nOut = Exc
        ELSE C39_NormaliserTotal

----------------------------------------------------------------------------
(* Scenario A: an object-store input run end to end *)

\* the request of scenario A: raw/clip1.mp4 named with its bucket, and no
\* key of a shape build_initial_payload tries before file_name + bucket
ScenarioA ==
    /\ Normalised
    /\ Has(data, "file_name") /\ Has(data, "bucket")
    /\ data.m["file_name"] = S(<<"raw", "/", "clip1", ".", "mp4">>)
    /\ ~Has(data, "media_url") /\ ~Has(data, "media_bytes")

ScenarioACalls == <<"transcode", "sample", "enrich", "store">>

\* an environment in which the stage itself does not break
HealthyEnvs(stage) ==
    IF stage = "transcode" THEN {e \in TranscodeEnvs : ~e.fail}
    ELSE StageEnvs(stage) \ {"error", "firestore_error"}

\* the record run_all holds when it makes its k-th call: the descriptor,
\* then the record of the call before with that call's answer merged in
RecordBefore(k) ==
    IF k = 1 THEN payload
    ELSE IF sent[k].stage = "store"
    THEN Put(sent[k - 1].body, "analysis", answers[k - 1].body)
    ELSE deep_merge(sent[k - 1].body, answers[k - 1].body)

\* C31: scenario A.  For the object-store input naming raw/clip1.mp4 the
\* descriptor has asset_type "video"; when transcode reports
\* no_audio_present the calls are transcode, sample, enrich, store in that
\* order with transcribe never called, each stage is sent the record built
\* from the answers before it and accepts that record whenever its own
\* environment is healthy, and an execution without a hard failure makes
\* all four calls and answers pipeline = "complete".
C31_ScenarioA ==
    ScenarioA =>
        /\ DescriptorType = W("video")
        /\ payload.m["paths"].m["raw"]
             = S(<<"gs://", "assets", "/", "raw", "/", "clip1", ".", "mp4">>)
        /\ ReportedAudio = W("no_audio_present") =>
             /\ Len(calls) <= Len(ScenarioACalls)
             /\ \A k \in 1..Len(calls) : calls[k] = ScenarioACalls[k]
             /\ \A k \in 1..Len(sent) :
                  /\ sent[k].body = RecordBefore(k)
                  /\ \A env \in HealthyEnvs(sent[k].stage) :
                       post(sent[k].stage, sent[k].body, env).status = 200
             /\ (pc = "done" /\ failed = "none") =>
                  /\ calls = ScenarioACalls
                  /\ Len(sent) = 4 /\ Len(answers) = 4
                  /\ response = CompleteReport(answers[4].body)
                  /\ response.body.m["pipeline"] = W("complete")

C31_Witness ==
    /\ ScenarioA
    /\ ReportedAudio = W("no_audio_present")
    /\ pc = "done" /\ failed = "none"
    /\ calls = ScenarioACalls
    /\ response.body.m["pipeline"] = W("complete")

----------------------------------------------------------------------------
(* The two stores of the Record Store *)

\* /store answered 200 in this execution
StoreSucceeded == \E i \in 1..Len(answers) : answers[i].stage = "store"

\* C32: after a successful /store the Firestore document and the GCS JSON
\* object of the asset hold the same record: the same fields with the same
\* values, status "complete", the timestamp and paths.metadata included.
C32_StoresHoldSameRecord ==
    StoreSucceeded =>
        /\ gcs_metadata # None /\ firestore_assets # None
        /\ gcs_metadata.m["status"] = W("complete")
        /\ firestore_assets.m["status"] = W("complete")
        /\ gcs_metadata.m["timestamp"] = firestore_assets.m["timestamp"]
        /\ Has(gcs_metadata.m["paths"], "metadata")
        /\ FieldPaths(gcs_metadata) = FieldPaths(firestore_assets)
        /\ gcs_metadata = firestore_assets

\* what the two stores do agree on after a successful /store: every field
\* but paths.metadata, which only the Firestore document holds
C32_StoresAgreeButMetadataPath ==
    StoreSucceeded =>
        /\ gcs_metadata # None /\ firestore_assets # None
        /\ firestore_assets =
             Put(gcs_metadata, "paths",
                 Put(gcs_metadata.m["paths"], "metadata",
                     metadata_uri_of(gcs_metadata)))
        /\ ~Has(gcs_metadata.m["paths"], "metadata")

====
